---- MODULE Spec2Model ----
(***************************************************************************)
(* A model of the TechMentor voice pipeline: the query classifier, the     *)
(* documentation client (MCPClient), the response generator, the           *)
(* voice-query route handlers and the text-to-speech route handler.        *)
(*                                                                         *)
(* Texts are sequences of one-character strings, so that toLowerCase,      *)
(* trim, includes and length are computed as the code computes them.       *)
(***************************************************************************)
EXTENDS Integers, Sequences, FiniteSets, TLC

VARIABLES
    call,       \* the pure-function call under test: [fn |-> ..., arguments]
    rets,       \* the values its successive invocations returned
    gPc,        \* ResponseGenerator.generate: "idle", "start", "llm", "returned", "threw"
    gCtx,       \* its ProcessingContext argument
    gLlm,       \* how the completion call settled: "none", "fulfilled", "rejected"
    gLlmCalls,  \* the calls made to geminiMain.generateContent
    gResult,    \* the string generate resolved to
    mPc,        \* MCPClient.search: "idle", "start", "resolving", "fetching", "returned", "threw"
    mQuery,     \* its query argument
    mResolve,   \* how the resolve-library-id request settled
    mLibraryIds,\* what findLibraries returned
    mTop,       \* topLibraries
    mFetch,     \* per selected library: the get-library-docs request and its promise
    mOrder,     \* the indexes of the selected libraries in the order their fetches settled
    mResult,    \* the MCPSearchResult search resolved to
    vVersion,   \* which voice-query route handler serves the request
    vPc,        \* where its POST handler stands
    vRequest,   \* the request body
    vLocal,     \* the handler's local variables, and how its stages failed
    vStages,    \* the pipeline stages the handler has invoked
    vReply,     \* the HTTP reply: status and JSON body
    tPc,        \* the tts POST handler: where it stands
    tRequest,   \* its request body
    tKey,       \* whether ELEVENLABS_API_KEY is set
    tCleaned,   \* cleanedText
    tCalls,     \* the calls made to the text cleaner's LLM and to the vendor
    tVendor,    \* the vendor requests in order: voice, text sent and how each settled
    tReply,     \* the HTTP reply
    cConn,      \* VoiceAssistant: the streaming socket, "disconnected", "connecting", "connected"
    cIsProcessing, \* voiceState.current.isProcessing
    cTimer,     \* speechTimer: [set |-> FALSE] or the transcript it will process
    cRuns,      \* the invocations of processVoiceQuery that passed the guard
    cMsg,       \* the message the socket's onmessage handler received last
    wSockets,   \* WebSocketManager: the readyState of every socket it created, in order
    wHeld,      \* the socket this.ws refers to, 0 for null
    wStatus,    \* the connection status reported last
    wEvent      \* the handler of a socket that ran last, and for which socket

unitVars == <<call, rets>>

genVars == <<gPc, gCtx, gLlm, gLlmCalls, gResult>>

mcpVars == <<mPc, mQuery, mResolve, mLibraryIds, mTop, mFetch, mOrder, mResult>>

voiceVars == <<vVersion, vPc, vRequest, vLocal, vStages, vReply>>

ttsVars == <<tPc, tRequest, tKey, tCleaned, tCalls, tVendor, tReply>>

clientVars == <<cConn, cIsProcessing, cTimer, cRuns, cMsg>>

socketVars == <<wSockets, wHeld, wStatus, wEvent>>

vars == <<unitVars, genVars, mcpVars, voiceVars, ttsVars, clientVars, socketVars>>

nonUnitVars == <<genVars, mcpVars, voiceVars, ttsVars, clientVars, socketVars>>

nonGenVars == <<unitVars, mcpVars, voiceVars, ttsVars, clientVars, socketVars>>

nonMcpVars == <<unitVars, genVars, voiceVars, ttsVars, clientVars, socketVars>>

nonVoiceVars == <<unitVars, ttsVars, clientVars, socketVars>>

nonTtsVars == <<unitVars, genVars, mcpVars, voiceVars, clientVars, socketVars>>

nonClientVars == <<unitVars, genVars, mcpVars, voiceVars, ttsVars, socketVars>>

nonSocketVars == <<unitVars, genVars, mcpVars, voiceVars, ttsVars, clientVars>>

NoContext == [query |-> <<>>, correctedQuery |-> <<>>, documentation |-> <<>>,
              libraries |-> <<>>, isConversational |-> FALSE]

UnitIdle ==
    /\ call = [fn |-> "none"]
    /\ rets = <<>>

GenIdle ==
    /\ gPc = "idle"
    /\ gCtx = NoContext
    /\ gLlm = "none"
    /\ gLlmCalls = 0
    /\ gResult = <<>>

NoResult == [documentation |-> <<>>, libraries |-> <<>>]

McpIdle ==
    /\ mPc = "idle"
    /\ mQuery = <<>>
    /\ mResolve = [kind |-> "none"]
    /\ mLibraryIds = <<>>
    /\ mTop = <<>>
    /\ mFetch = <<>>
    /\ mOrder = <<>>
    /\ mResult = NoResult

NoRequest == [kind |-> "none"]

NoLocals == [query |-> <<>>, correctedQuery |-> <<>>, documentation |-> <<>>,
             libraries |-> <<>>, mcpContext |-> <<>>,
             searchFailure |-> "none", analysisFailed |-> FALSE]

NoReply == [sent |-> FALSE]

VoiceIdle ==
    /\ vVersion = "none"
    /\ vPc = "idle"
    /\ vRequest = NoRequest
    /\ vLocal = NoLocals
    /\ vStages = {}
    /\ vReply = NoReply

TtsIdle ==
    /\ tPc = "idle"
    /\ tRequest = NoRequest
    /\ tKey = FALSE
    /\ tCleaned = <<>>
    /\ tCalls = [cleaner |-> 0, vendor |-> 0]
    /\ tVendor = <<>>
    /\ tReply = NoReply

\* the component before its mount effect has run
NoTimer == [set |-> FALSE]

NoMessage == [kind |-> "none"]

ClientIdle ==
    /\ cConn = "disconnected"
    /\ cIsProcessing = FALSE
    /\ cTimer = NoTimer
    /\ cRuns = <<>>
    /\ cMsg = NoMessage

NoEvent == [kind |-> "none"]

SocketIdle ==
    /\ wSockets = <<>>
    /\ wHeld = 0
    /\ wStatus = "disconnected"
    /\ wEvent = NoEvent

NonUnitIdle == GenIdle /\ McpIdle /\ VoiceIdle /\ TtsIdle /\ ClientIdle /\ SocketIdle

NonGenIdle == UnitIdle /\ McpIdle /\ VoiceIdle /\ TtsIdle /\ ClientIdle /\ SocketIdle

NonMcpIdle == UnitIdle /\ GenIdle /\ VoiceIdle /\ TtsIdle /\ ClientIdle /\ SocketIdle

NonVoiceIdle == UnitIdle /\ TtsIdle /\ ClientIdle /\ SocketIdle

NonTtsIdle == UnitIdle /\ GenIdle /\ McpIdle /\ VoiceIdle /\ ClientIdle /\ SocketIdle

NonClientIdle == UnitIdle /\ GenIdle /\ McpIdle /\ VoiceIdle /\ TtsIdle /\ SocketIdle

NonSocketIdle == UnitIdle /\ GenIdle /\ McpIdle /\ VoiceIdle /\ TtsIdle /\ ClientIdle

(***************************************************************************)
(* Bounds of the model.                                                    *)
(***************************************************************************)
\* every string over ShortAlphabet up to this length is a classifier input
MaxShortLen == 3
\* how often a pure function is invoked on the same arguments
MaxCalls == 2
\* the most library paths one resolve answer mentions
MaxMentions == 2
\* the most sockets one WebSocketManager creates
MaxSockets == 3
\* every string over ShortAlphabet up to this length is a generator query
MaxGenShortLen == 2
\* the longest candidate list handed to the ranking
MaxCandidates == 3

(***************************************************************************)
(* JavaScript string primitives.                                           *)
(***************************************************************************)
Uppers ==
    <<"A","B","C","D","E","F","G","H","I","J","K","L","M",
      "N","O","P","Q","R","S","T","U","V","W","X","Y","Z">>

Lowers ==
    <<"a","b","c","d","e","f","g","h","i","j","k","l","m",
      "n","o","p","q","r","s","t","u","v","w","x","y","z">>

Whitespace == {" ", "\t", "\n"}

\* String.prototype.toLowerCase, one character
ToLowerChar(c) ==
    IF \E i \in 1..Len(Uppers) : Uppers[i] = c
    THEN Lowers[CHOOSE i \in 1..Len(Uppers) : Uppers[i] = c]
    ELSE c

\* String.prototype.toLowerCase
ToLower(s) == [i \in 1..Len(s) |-> ToLowerChar(s[i])]

\* String.prototype.trim
Trim(s) ==
    LET keep == {i \in 1..Len(s) : s[i] \notin Whitespace}
    IN  IF keep = {} THEN <<>>
        ELSE LET lo == CHOOSE i \in keep : \A j \in keep : i <= j
                 hi == CHOOSE i \in keep : \A j \in keep : j <= i
             IN  SubSeq(s, lo, hi)

\* String.prototype.includes
Includes(s, p) ==
    \E i \in 0..(Len(s) - Len(p)) : SubSeq(s, i + 1, i + Len(p)) = p

\* String.prototype.startsWith / endsWith
StartsWith(s, p) == Len(p) <= Len(s) /\ SubSeq(s, 1, Len(p)) = p

EndsWith(s, p) == Len(p) <= Len(s) /\ SubSeq(s, Len(s) - Len(p) + 1, Len(s)) = p

\* the strings over alphabet of length at most n
RECURSIVE StringsUpTo(_, _)
StringsUpTo(alphabet, n) ==
    IF n = 0 THEN {<<>>}
    ELSE LET shorter == StringsUpTo(alphabet, n - 1)
         IN  shorter \cup {Append(s, c) : s \in shorter, c \in alphabet}

\* the sequences over S of length at most n
RECURSIVE SeqsUpTo(_, _)
SeqsUpTo(S, n) ==
    IF n = 0 THEN {<<>>}
    ELSE LET shorter == SeqsUpTo(S, n - 1)
         IN  shorter \cup {Append(s, x) : s \in shorter, x \in S}

\* the elements of a sequence
Range(s) == {s[i] : i \in 1..Len(s)}

(***************************************************************************)
(* types.ts: CONVERSATIONAL_PHRASES.                                       *)
(***************************************************************************)
P_hello ==
    <<"h","e","l","l","o">>

P_hi ==
    <<"h","i">>

P_hey ==
    <<"h","e","y">>

P_can_you_hear_me ==
    <<"c","a","n"," ","y","o","u"," ","h","e","a","r"," ","m","e">>

P_test ==
    <<"t","e","s","t">>

P_testing ==
    <<"t","e","s","t","i","n","g">>

P_how_are_you ==
    <<"h","o","w"," ","a","r","e"," ","y","o","u">>

P_are_you_there ==
    <<"a","r","e"," ","y","o","u"," ","t","h","e","r","e">>

P_are_you_working ==
    <<"a","r","e"," ","y","o","u"," ","w","o","r","k","i","n","g">>

P_am_i_audible ==
    <<"a","m"," ","i"," ","a","u","d","i","b","l","e">>

CONVERSATIONAL_PHRASES ==
    <<P_hello, P_hi, P_hey, P_can_you_hear_me, P_test, P_testing,
      P_how_are_you, P_are_you_there, P_are_you_working, P_am_i_audible>>

(***************************************************************************)
(* query-corrector.ts: QueryCorrector.isConversational.                    *)
(***************************************************************************)
\* the classifier comparing the whole query instead of searching it
isConversational_Exact(query) ==
    LET lowerQuery == Trim(ToLower(query))
    IN  \E i \in 1..Len(CONVERSATIONAL_PHRASES) :
            lowerQuery = CONVERSATIONAL_PHRASES[i]

isConversational(query) ==
    LET lowerQuery == Trim(ToLower(query))
    IN  \E i \in 1..Len(CONVERSATIONAL_PHRASES) :
            Includes(lowerQuery, CONVERSATIONAL_PHRASES[i])

(***************************************************************************)
(* Queries.                                                                *)
(***************************************************************************)
\* 'how do I set up authentication in Next.js 14'
Q_TechnicalAuth ==
    <<"h","o","w"," ","d","o"," ","I"," ","s","e","t"," ","u","p"," ","a","u","t","h","e","n",
      "t","i","c","a","t","i","o","n"," ","i","n"," ","N","e","x","t",".","j","s"," ","1","4">>

\* 'HELLO'
Q_HelloUpper ==
    <<"H","E","L","L","O">>

\* 'Can You Hear Me'
Q_CanYouHearMeMixed ==
    <<"C","a","n"," ","Y","o","u"," ","H","e","a","r"," ","M","e">>

\* '  Testing  '
Q_TestingPadded ==
    <<" "," ","T","e","s","t","i","n","g"," "," ">>

\* 'latest release'
Q_LatestRelease ==
    <<"l","a","t","e","s","t"," ","r","e","l","e","a","s","e">>

\* 'what is this thing'
Q_ThisThing ==
    <<"w","h","a","t"," ","i","s"," ","t","h","i","s"," ","t","h","i","n","g">>

\* 'what is react'
Q_WhatIsReact ==
    <<"w","h","a","t"," ","i","s"," ","r","e","a","c","t">>

\* 'explain drizzle orm'
Q_DrizzleOrm ==
    <<"e","x","p","l","a","i","n"," ","d","r","i","z","z","l","e"," ","o","r","m">>

\* 'Am I audible?'
Q_AmIAudible ==
    <<"A","m"," ","I"," ","a","u","d","i","b","l","e","?">>

\* 'How Are You today'
Q_HowAreYouToday ==
    <<"H","o","w"," ","A","r","e"," ","Y","o","u"," ","t","o","d","a","y">>

\* 'hey, how do hooks work'
Q_HeyHooks ==
    <<"h","e","y",","," ","h","o","w"," ","d","o"," ","h","o","o","k","s"," ","w","o","r","k">>

\* 'helo'
Q_Helo ==
    <<"h","e","l","o">>

\* 'are you'
Q_AreYou ==
    <<"a","r","e"," ","y","o","u">>

\* 'tes ting'
Q_TesTing ==
    <<"t","e","s"," ","t","i","n","g">>

\* 'ARE YOU WORKING'
Q_AreYouWorking ==
    <<"A","R","E"," ","Y","O","U"," ","W","O","R","K","I","N","G">>

\* 'better auth'
Q_BetterAuth ==
    <<"b","e","t","t","e","r"," ","a","u","t","h">>

\* 'did you hear me'
Q_DidYouHearMe ==
    <<"d","i","d"," ","y","o","u"," ","h","e","a","r"," ","m","e">>

NamedQueries ==
    {Q_TechnicalAuth, Q_HelloUpper, Q_CanYouHearMeMixed, Q_TestingPadded,
     Q_LatestRelease, Q_ThisThing, Q_WhatIsReact, Q_DrizzleOrm, Q_AmIAudible,
     Q_HowAreYouToday, Q_HeyHooks, Q_Helo, Q_AreYou, Q_TesTing,
     Q_AreYouWorking, Q_BetterAuth, Q_DidYouHearMe}

ShortAlphabet == {"h", "i", "e", "y", "H", "I", " "}

ClassifyQueries ==
    NamedQueries \cup Range(CONVERSATIONAL_PHRASES)
        \cup StringsUpTo(ShortAlphabet, MaxShortLen)

(***************************************************************************)
(* mcp-client.ts: string literals of the ranking heuristic.                *)
(***************************************************************************)
S_better_auth_sp ==
    <<"b","e","t","t","e","r"," ","a","u","t","h">>

S_betterauth ==
    <<"b","e","t","t","e","r","a","u","t","h">>

S_better_auth_dash ==
    <<"b","e","t","t","e","r","-","a","u","t","h">>

S_nextjs ==
    <<"n","e","x","t","j","s">>

S_next_js ==
    <<"n","e","x","t",".","j","s">>

S_vercel ==
    <<"v","e","r","c","e","l">>

S_drizzle ==
    <<"d","r","i","z","z","l","e">>

S_drizzle_team ==
    <<"d","r","i","z","z","l","e","-","t","e","a","m">>

S_facebook ==
    <<"f","a","c","e","b","o","o","k">>

S_vuejs ==
    <<"v","u","e","j","s">>

S_docs ==
    <<"d","o","c","s">>

S_documentation ==
    <<"d","o","c","u","m","e","n","t","a","t","i","o","n">>

S_auth0 ==
    <<"a","u","t","h","0">>

S_nextauth ==
    <<"n","e","x","t","a","u","t","h">>

S_example ==
    <<"e","x","a","m","p","l","e">>

S_demo ==
    <<"d","e","m","o">>

S_starter ==
    <<"s","t","a","r","t","e","r">>

S_boilerplate ==
    <<"b","o","i","l","e","r","p","l","a","t","e">>

S_template ==
    <<"t","e","m","p","l","a","t","e">>

(***************************************************************************)
(* Library identifiers.                                                    *)
(***************************************************************************)
\* '/better-auth/better-auth'
L_BetterAuth ==
    <<"/","b","e","t","t","e","r","-","a","u","t","h","/","b","e","t","t","e","r","-","a","u",
      "t","h">>

\* '/nextauthjs/next-auth'
L_NextAuth ==
    <<"/","n","e","x","t","a","u","t","h","j","s","/","n","e","x","t","-","a","u","t","h">>

\* '/auth0/docs'
L_Auth0Docs ==
    <<"/","a","u","t","h","0","/","d","o","c","s">>

\* '/vercel/nextjs-starter'
L_NextStarter ==
    <<"/","v","e","r","c","e","l","/","n","e","x","t","j","s","-","s","t","a","r","t","e","r">>

\* '/drizzle-team/drizzle-orm'
L_DrizzleOrm ==
    <<"/","d","r","i","z","z","l","e","-","t","e","a","m","/","d","r","i","z","z","l","e","-",
      "o","r","m">>

\* '/acme/demo'
L_AcmeDemo ==
    <<"/","a","c","m","e","/","d","e","m","o">>

\* '/facebook/react'
L_React ==
    <<"/","f","a","c","e","b","o","o","k","/","r","e","a","c","t">>

\* '/org/project'
L_OrgProject ==
    <<"/","o","r","g","/","p","r","o","j","e","c","t">>

\* '/src/config.js'
L_ConfigJs ==
    <<"/","s","r","c","/","c","o","n","f","i","g",".","j","s">>

\* 'nextjs'
Q_Nextjs ==
    <<"n","e","x","t","j","s">>

\* 'Next.js Auth'
Q_NextJsAuthUpper ==
    <<"N","e","x","t",".","j","s"," ","A","u","t","h">>

\* 'drizzle orm'
Q_DrizzleOrmShort ==
    <<"d","r","i","z","z","l","e"," ","o","r","m">>

\* ' react  docs'
Q_ReactDocs ==
    <<" ","r","e","a","c","t"," "," ","d","o","c","s">>

\* 'docs'
Q_Docs ==
    <<"d","o","c","s">>

(***************************************************************************)
(* mcp-client.ts: MCPClient.selectTopLibraries, and its earlier variant.   *)
(***************************************************************************)
MAX_LIBRARIES == 2

\* String.prototype.split on one separator character
RECURSIVE SplitFrom(_, _, _, _)
SplitFrom(s, sep, i, cur) ==
    IF i > Len(s) THEN <<cur>>
    ELSE IF s[i] = sep THEN <<cur>> \o SplitFrom(s, sep, i + 1, <<>>)
    ELSE SplitFrom(s, sep, i + 1, Append(cur, s[i]))

Split(s, sep) == SplitFrom(s, sep, 1, <<>>)

\* String.prototype.split(/\s+/): a run of whitespace is one separator
RECURSIVE SplitWsFrom(_, _, _)
SplitWsFrom(s, i, cur) ==
    IF i > Len(s) THEN <<cur>>
    ELSE IF s[i] \in Whitespace
         THEN IF i > 1 /\ s[i - 1] \in Whitespace
              THEN SplitWsFrom(s, i + 1, cur)
              ELSE <<cur>> \o SplitWsFrom(s, i + 1, <<>>)
         ELSE SplitWsFrom(s, i + 1, Append(cur, s[i]))

SplitWs(s) == SplitWsFrom(s, 1, <<>>)

\* String.prototype.replace(/\s+/g, '-')
RECURSIVE ReplaceWsFrom(_, _)
ReplaceWsFrom(s, i) ==
    IF i > Len(s) THEN <<>>
    ELSE IF s[i] \in Whitespace
         THEN IF i > 1 /\ s[i - 1] \in Whitespace
              THEN ReplaceWsFrom(s, i + 1)
              ELSE <<"-">> \o ReplaceWsFrom(s, i + 1)
         ELSE <<s[i]>> \o ReplaceWsFrom(s, i + 1)

ReplaceWs(s) == ReplaceWsFrom(s, 1)

\* const [, org, repo] = id.split("/")
OrgOf(id) == Split(id, "/")[2]

RepoOf(id) == Split(id, "/")[3]

officialOrgs ==
    {S_better_auth_dash, S_vercel, S_nextjs, S_facebook, S_vuejs, S_drizzle_team}

Bonus(cond, points) == IF cond THEN points ELSE 0

\* the "for (const keyword of keywords)" loop: +10 for each keyword longer
\* than two characters that the lower-cased identifier includes
RECURSIVE KeywordScore(_, _)
KeywordScore(keywords, idLower) ==
    IF keywords = <<>> THEN 0
    ELSE Bonus(Len(Head(keywords)) > 2 /\ Includes(idLower, Head(keywords)), 10)
            + KeywordScore(Tail(keywords), idLower)

\* the score the map callback of mcp-client.ts gives one identifier
ScoreOf(id, query) ==
    LET queryLower == ToLower(query)
        org == OrgOf(id)
        repo == RepoOf(id)
        idLower == ToLower(id)
    IN    Bonus(/\ \/ Includes(queryLower, S_better_auth_sp)
                   \/ Includes(queryLower, S_betterauth)
                /\ \/ Includes(idLower, S_better_auth_dash)
                   \/ org = S_better_auth_dash, 100)
        + Bonus(/\ \/ Includes(queryLower, S_nextjs)
                   \/ Includes(queryLower, S_next_js)
                /\ \/ org = S_vercel
                   \/ org = S_nextjs
                   \/ Includes(repo, S_nextjs), 80)
        + Bonus(/\ Includes(queryLower, S_drizzle)
                /\ \/ org = S_drizzle_team
                   \/ Includes(repo, S_drizzle), 100)
        + Bonus(org \in officialOrgs, 50)
        + Bonus(repo = S_docs \/ Includes(repo, S_documentation), 30)
        - Bonus(Includes(queryLower, S_better_auth_sp) /\ Includes(idLower, S_auth0), 50)
        - Bonus(Includes(queryLower, S_better_auth_sp) /\ Includes(idLower, S_nextauth), 50)
        - Bonus(\/ Includes(repo, S_example)
                \/ Includes(repo, S_demo)
                \/ Includes(repo, S_starter), 40)
        + KeywordScore(SplitWs(queryLower), idLower)

\* the score the map callback of the earlier variant gives one identifier
ScoreOfVariant(id, query) ==
    LET org == OrgOf(id)
        repo == RepoOf(id)
    IN    Bonus(org \in officialOrgs, 50)
        + Bonus(repo = S_docs \/ Includes(repo, S_documentation), 30)
        + Bonus(repo = ToLower(query) \/ repo = ReplaceWs(ToLower(query)), 40)
        - Bonus(\/ Includes(repo, S_example)
                \/ Includes(repo, S_demo)
                \/ Includes(repo, S_starter), 40)
        - Bonus(Includes(repo, S_boilerplate) \/ Includes(repo, S_template), 20)
        + Bonus(Includes(ToLower(id), ToLower(query)), 20)

\* a sort that puts an item in front of the items of equal score
RECURSIVE InsertByScore_TiesFirst(_, _)
InsertByScore_TiesFirst(sorted, item) ==
    IF sorted = <<>> THEN <<item>>
    ELSE IF Head(sorted).score > item.score
         THEN <<Head(sorted)>> \o InsertByScore_TiesFirst(Tail(sorted), item)
         ELSE <<item>> \o sorted

\* Array.prototype.sort((a, b) => b.score - a.score): a stable sort, so an
\* item goes behind every item already placed whose score is not smaller
RECURSIVE InsertByScore(_, _)
InsertByScore(sorted, item) ==
    IF sorted = <<>> THEN <<item>>
    ELSE IF Head(sorted).score >= item.score
         THEN <<Head(sorted)>> \o InsertByScore(Tail(sorted), item)
         ELSE <<item>> \o sorted

RECURSIVE SortByScoreFrom(_, _, _)
SortByScoreFrom(scored, i, sorted) ==
    IF i > Len(scored) THEN sorted
    ELSE SortByScoreFrom(scored, i + 1, InsertByScore(sorted, scored[i]))

SortByScore(scored) == SortByScoreFrom(scored, 1, <<>>)

\* Array.prototype.slice(0, n)
Slice0(s, n) == SubSeq(s, 1, IF Len(s) < n THEN Len(s) ELSE n)

selectTopLibraries(libraryIds, query) ==
    LET scored == [i \in 1..Len(libraryIds) |->
                      [id |-> libraryIds[i], score |-> ScoreOf(libraryIds[i], query)]]
        sorted == SortByScore(scored)
        top == Slice0(sorted, MAX_LIBRARIES)
    IN  [i \in 1..Len(top) |-> top[i].id]

selectTopLibrariesVariant(libraryIds, query) ==
    LET scored == [i \in 1..Len(libraryIds) |->
                      [id |-> libraryIds[i], score |-> ScoreOfVariant(libraryIds[i], query)]]
        sorted == SortByScore(scored)
        top == Slice0(sorted, MAX_LIBRARIES)
    IN  [i \in 1..Len(top) |-> top[i].id]

(***************************************************************************)
(* The classifier under test.                                              *)
(***************************************************************************)
ClassifyInit ==
    /\ call \in {[fn |-> "isConversational", query |-> q] : q \in ClassifyQueries}
    /\ rets = <<>>
    /\ NonUnitIdle

CallIsConversational ==
    /\ call.fn = "isConversational"
    /\ Len(rets) < MaxCalls
    /\ rets' = Append(rets, isConversational(call.query))
    /\ UNCHANGED <<call, nonUnitVars>>

ClassifyNext == CallIsConversational

SpecClassify == ClassifyInit /\ [][ClassifyNext]_vars

(***************************************************************************)
(* The ranking under test: both variants, on every candidate list over the *)
(* pool up to MaxCandidates entries, repeated entries included.            *)
(***************************************************************************)
RankPool == {L_BetterAuth, L_NextAuth, L_Auth0Docs, L_NextStarter, L_AcmeDemo}

RankQueries == {Q_BetterAuth, Q_NextJsAuthUpper, Q_Docs}

RankInit ==
    /\ call \in {[fn |-> "selectTopLibraries", variant |-> v, libraryIds |-> ids, query |-> q] :
                    v \in {"current", "earlier"},
                    ids \in SeqsUpTo(RankPool, MaxCandidates),
                    q \in RankQueries}
    /\ rets = <<>>
    /\ NonUnitIdle

CallSelectTopLibraries ==
    /\ call.fn = "selectTopLibraries"
    /\ call.variant = "current"
    /\ Len(rets) < MaxCalls
    /\ rets' = Append(rets, selectTopLibraries(call.libraryIds, call.query))
    /\ UNCHANGED <<call, nonUnitVars>>

CallSelectTopLibrariesVariant ==
    /\ call.fn = "selectTopLibraries"
    /\ call.variant = "earlier"
    /\ Len(rets) < MaxCalls
    /\ rets' = Append(rets, selectTopLibrariesVariant(call.libraryIds, call.query))
    /\ UNCHANGED <<call, nonUnitVars>>

RankNext ==
    \/ CallSelectTopLibraries
    \/ CallSelectTopLibrariesVariant

SpecRank == RankInit /\ [][RankNext]_vars

(***************************************************************************)
(* C8: isConversational returns true exactly when the lower-cased, trimmed *)
(* query contains one of the ten fixed phrases as a substring, and returns *)
(* false for "how do I set up authentication in Next.js 14".               *)
(***************************************************************************)
\* p occurs in s at some position, character by character
OccursIn(p, s) ==
    \E k \in 1..Len(s) :
        /\ k + Len(p) - 1 <= Len(s)
        /\ \A j \in 1..Len(p) : s[k + j - 1] = p[j]

TenPhrases ==
    {P_hello, P_hi, P_hey, P_can_you_hear_me, P_test, P_testing,
     P_how_are_you, P_are_you_there, P_are_you_working, P_am_i_audible}

C8_ClassifierMatchesPhrases ==
    (call.fn = "isConversational") =>
        \A n \in 1..Len(rets) :
            /\ rets[n] = (\E p \in TenPhrases : OccursIn(p, Trim(ToLower(call.query))))
            /\ (call.query = Q_TechnicalAuth => rets[n] = FALSE)

C8_Witness ==
    /\ call.fn = "isConversational"
    /\ Len(rets) >= 1
    /\ \/ call.query = Q_TechnicalAuth /\ rets[1] = FALSE
       \/ call.query = Q_AmIAudible /\ rets[1] = TRUE

(***************************************************************************)
(* C9: selectTopLibraries returns at most 2 identifiers, all taken from    *)
(* the candidate list, ordered by descending score with candidates of      *)
(* equal score kept in their input order, and repeated calls on the same   *)
(* candidate list and query return the same ordered list.                  *)
(***************************************************************************)
RankScore(id) ==
    IF call.variant = "current" THEN ScoreOf(id, call.query)
    ELSE ScoreOfVariant(id, call.query)

\* r lists entries of ids, found at the positions pos, in descending score
\* and, where the scores are equal, in the order of their positions
IsRankedSelection(r, ids, pos) ==
    /\ \A k \in 1..Len(r) : ids[pos[k]] = r[k]
    /\ \A k, l \in 1..Len(r) :
          k < l =>
              \/ RankScore(r[k]) > RankScore(r[l])
              \/ RankScore(r[k]) = RankScore(r[l]) /\ pos[k] < pos[l]

C9_RankingStableTopTwo ==
    (call.fn = "selectTopLibraries") =>
        \A n \in 1..Len(rets) :
            /\ Len(rets[n]) <= 2
            /\ \E pos \in [1..Len(rets[n]) -> 1..Len(call.libraryIds)] :
                   IsRankedSelection(rets[n], call.libraryIds, pos)
            /\ rets[n] = rets[1]

C9_Witness ==
    /\ call.fn = "selectTopLibraries"
    /\ Len(call.libraryIds) = 3
    /\ Len(rets) = 2
    /\ Len(rets[2]) = 2
    /\ rets[2][1] # rets[2][2]
    /\ RankScore(rets[2][1]) = RankScore(rets[2][2])

(***************************************************************************)
(* response-generator.ts: the replies of generateConversationalResponse    *)
(* and generateFallbackResponse.                                           *)
(***************************************************************************)
\* Hello! I'm your TechMentor voice assistant, ready to help with any programming questions!
R_hello ==
    <<"H","e","l","l","o","!"," ","I","'","m"," ","y","o","u","r"," ","T","e","c","h","M","e",
      "n","t","o","r"," ","v","o","i","c","e"," ","a","s","s","i","s","t","a","n","t",","," ",
      "r","e","a","d","y"," ","t","o"," ","h","e","l","p"," ","w","i","t","h"," ","a","n","y",
      " ","p","r","o","g","r","a","m","m","i","n","g"," ","q","u","e","s","t","i","o","n","s",
      "!">>

\* Hi there! I'm here to help with technical questions about frameworks, programming languages, and more!
R_hi ==
    <<"H","i"," ","t","h","e","r","e","!"," ","I","'","m"," ","h","e","r","e"," ","t","o"," ",
      "h","e","l","p"," ","w","i","t","h"," ","t","e","c","h","n","i","c","a","l"," ","q","u",
      "e","s","t","i","o","n","s"," ","a","b","o","u","t"," ","f","r","a","m","e","w","o","r",
      "k","s",","," ","p","r","o","g","r","a","m","m","i","n","g"," ","l","a","n","g","u","a",
      "g","e","s",","," ","a","n","d"," ","m","o","r","e","!">>

\* Hey! Ready to assist with any technology questions you have!
R_hey ==
    <<"H","e","y","!"," ","R","e","a","d","y"," ","t","o"," ","a","s","s","i","s","t"," ","w",
      "i","t","h"," ","a","n","y"," ","t","e","c","h","n","o","l","o","g","y"," ","q","u","e",
      "s","t","i","o","n","s"," ","y","o","u"," ","h","a","v","e","!">>

\* Yes, I can hear you perfectly! I'm ready to help with technical questions.
R_can_you_hear_me ==
    <<"Y","e","s",","," ","I"," ","c","a","n"," ","h","e","a","r"," ","y","o","u"," ","p","e",
      "r","f","e","c","t","l","y","!"," ","I","'","m"," ","r","e","a","d","y"," ","t","o"," ",
      "h","e","l","p"," ","w","i","t","h"," ","t","e","c","h","n","i","c","a","l"," ","q","u",
      "e","s","t","i","o","n","s",".">>

\* Yes, you're coming through crystal clear! What technology would you like to learn about?
R_am_i_audible ==
    <<"Y","e","s",","," ","y","o","u","'","r","e"," ","c","o","m","i","n","g"," ","t","h","r",
      "o","u","g","h"," ","c","r","y","s","t","a","l"," ","c","l","e","a","r","!"," ","W","h",
      "a","t"," ","t","e","c","h","n","o","l","o","g","y"," ","w","o","u","l","d"," ","y","o",
      "u"," ","l","i","k","e"," ","t","o"," ","l","e","a","r","n"," ","a","b","o","u","t","?">>

\* Test successful! I'm working great and ready for your technical questions.
R_test ==
    <<"T","e","s","t"," ","s","u","c","c","e","s","s","f","u","l","!"," ","I","'","m"," ","w",
      "o","r","k","i","n","g"," ","g","r","e","a","t"," ","a","n","d"," ","r","e","a","d","y",
      " ","f","o","r"," ","y","o","u","r"," ","t","e","c","h","n","i","c","a","l"," ","q","u",
      "e","s","t","i","o","n","s",".">>

\* Testing confirmed - everything is working perfectly! What can I help you with?
R_testing ==
    <<"T","e","s","t","i","n","g"," ","c","o","n","f","i","r","m","e","d"," ","-"," ","e","v",
      "e","r","y","t","h","i","n","g"," ","i","s"," ","w","o","r","k","i","n","g"," ","p","e",
      "r","f","e","c","t","l","y","!"," ","W","h","a","t"," ","c","a","n"," ","I"," ","h","e",
      "l","p"," ","y","o","u"," ","w","i","t","h","?">>

\* I'm functioning perfectly and ready to help with your programming questions!
R_how_are_you ==
    <<"I","'","m"," ","f","u","n","c","t","i","o","n","i","n","g"," ","p","e","r","f","e","c",
      "t","l","y"," ","a","n","d"," ","r","e","a","d","y"," ","t","o"," ","h","e","l","p"," ",
      "w","i","t","h"," ","y","o","u","r"," ","p","r","o","g","r","a","m","m","i","n","g"," ",
      "q","u","e","s","t","i","o","n","s","!">>

\* I'm here and ready to help! Ask me about any technology or programming topic.
R_are_you_there ==
    <<"I","'","m"," ","h","e","r","e"," ","a","n","d"," ","r","e","a","d","y"," ","t","o"," ",
      "h","e","l","p","!"," ","A","s","k"," ","m","e"," ","a","b","o","u","t"," ","a","n","y",
      " ","t","e","c","h","n","o","l","o","g","y"," ","o","r"," ","p","r","o","g","r","a","m",
      "m","i","n","g"," ","t","o","p","i","c",".">>

\* Yes, I'm working perfectly! What technology topic interests you today?
R_are_you_working ==
    <<"Y","e","s",","," ","I","'","m"," ","w","o","r","k","i","n","g"," ","p","e","r","f","e",
      "c","t","l","y","!"," ","W","h","a","t"," ","t","e","c","h","n","o","l","o","g","y"," ",
      "t","o","p","i","c"," ","i","n","t","e","r","e","s","t","s"," ","y","o","u"," ","t","o",
      "d","a","y","?">>

\* Hello! I'm your TechMentor voice assistant. I'm here and ready to help you with any programming or technology questions. What would you like to learn about?
D_default1 ==
    <<"H","e","l","l","o","!"," ","I","'","m"," ","y","o","u","r"," ","T","e","c","h","M","e",
      "n","t","o","r"," ","v","o","i","c","e"," ","a","s","s","i","s","t","a","n","t","."," ",
      "I","'","m"," ","h","e","r","e"," ","a","n","d"," ","r","e","a","d","y"," ","t","o"," ",
      "h","e","l","p"," ","y","o","u"," ","w","i","t","h"," ","a","n","y"," ","p","r","o","g",
      "r","a","m","m","i","n","g"," ","o","r"," ","t","e","c","h","n","o","l","o","g","y"," ",
      "q","u","e","s","t","i","o","n","s","."," ","W","h","a","t"," ","w","o","u","l","d"," ",
      "y","o","u"," ","l","i","k","e"," ","t","o"," ","l","e","a","r","n"," ","a","b","o","u",
      "t","?">>

\* Hi there! I can help you with technical questions about frameworks, programming languages, tools, and more. What can I explain for you?
D_default2 ==
    <<"H","i"," ","t","h","e","r","e","!"," ","I"," ","c","a","n"," ","h","e","l","p"," ","y",
      "o","u"," ","w","i","t","h"," ","t","e","c","h","n","i","c","a","l"," ","q","u","e","s",
      "t","i","o","n","s"," ","a","b","o","u","t"," ","f","r","a","m","e","w","o","r","k","s",
      ","," ","p","r","o","g","r","a","m","m","i","n","g"," ","l","a","n","g","u","a","g","e",
      "s",","," ","t","o","o","l","s",","," ","a","n","d"," ","m","o","r","e","."," ","W","h",
      "a","t"," ","c","a","n"," ","I"," ","e","x","p","l","a","i","n"," ","f","o","r"," ","y",
      "o","u","?">>

\* Hey! I'm working great and ready to assist. Ask me about any technology - React, Next.js, Python, databases, deployment, or anything else you're curious about!
D_default3 ==
    <<"H","e","y","!"," ","I","'","m"," ","w","o","r","k","i","n","g"," ","g","r","e","a","t",
      " ","a","n","d"," ","r","e","a","d","y"," ","t","o"," ","a","s","s","i","s","t","."," ",
      "A","s","k"," ","m","e"," ","a","b","o","u","t"," ","a","n","y"," ","t","e","c","h","n",
      "o","l","o","g","y"," ","-"," ","R","e","a","c","t",","," ","N","e","x","t",".","j","s",
      ","," ","P","y","t","h","o","n",","," ","d","a","t","a","b","a","s","e","s",","," ","d",
      "e","p","l","o","y","m","e","n","t",","," ","o","r"," ","a","n","y","t","h","i","n","g",
      " ","e","l","s","e"," ","y","o","u","'","r","e"," ","c","u","r","i","o","u","s"," ","a",
      "b","o","u","t","!">>

\* Hello! I'm your TechMentor assistant and I'm working perfectly. What technology topic would you like to explore today?
F_greeting ==
    <<"H","e","l","l","o","!"," ","I","'","m"," ","y","o","u","r"," ","T","e","c","h","M","e",
      "n","t","o","r"," ","a","s","s","i","s","t","a","n","t"," ","a","n","d"," ","I","'","m",
      " ","w","o","r","k","i","n","g"," ","p","e","r","f","e","c","t","l","y","."," ","W","h",
      "a","t"," ","t","e","c","h","n","o","l","o","g","y"," ","t","o","p","i","c"," ","w","o",
      "u","l","d"," ","y","o","u"," ","l","i","k","e"," ","t","o"," ","e","x","p","l","o","r",
      "e"," ","t","o","d","a","y","?">>

\* I understand you're asking about "
F_prefix ==
    <<"I"," ","u","n","d","e","r","s","t","a","n","d"," ","y","o","u","'","r","e"," ","a","s",
      "k","i","n","g"," ","a","b","o","u","t"," ","\"">>

\* ". I'm having a small technical hiccup, but I'm still here to help! Could you try rephrasing your question, or ask about a specific technology like React, Next.js, or Python?
F_suffix ==
    <<"\"","."," ","I","'","m"," ","h","a","v","i","n","g"," ","a"," ","s","m","a","l","l"," ",
      "t","e","c","h","n","i","c","a","l"," ","h","i","c","c","u","p",","," ","b","u","t"," ",
      "I","'","m"," ","s","t","i","l","l"," ","h","e","r","e"," ","t","o"," ","h","e","l","p",
      "!"," ","C","o","u","l","d"," ","y","o","u"," ","t","r","y"," ","r","e","p","h","r","a",
      "s","i","n","g"," ","y","o","u","r"," ","q","u","e","s","t","i","o","n",","," ","o","r",
      " ","a","s","k"," ","a","b","o","u","t"," ","a"," ","s","p","e","c","i","f","i","c"," ",
      "t","e","c","h","n","o","l","o","g","y"," ","l","i","k","e"," ","R","e","a","c","t",",",
      " ","N","e","x","t",".","j","s",","," ","o","r"," ","P","y","t","h","o","n","?">>

\* hear me
S_hear_me ==
    <<"h","e","a","r"," ","m","e">>

\* rephrasing
S_rephrasing ==
    <<"r","e","p","h","r","a","s","i","n","g">>

\* the phrase -> reply table, in the insertion order Object.entries follows
responses ==
    <<[key |-> P_hello, response |-> R_hello],
      [key |-> P_hi, response |-> R_hi],
      [key |-> P_hey, response |-> R_hey],
      [key |-> P_can_you_hear_me, response |-> R_can_you_hear_me],
      [key |-> P_am_i_audible, response |-> R_am_i_audible],
      [key |-> P_test, response |-> R_test],
      [key |-> P_testing, response |-> R_testing],
      [key |-> P_how_are_you, response |-> R_how_are_you],
      [key |-> P_are_you_there, response |-> R_are_you_there],
      [key |-> P_are_you_working, response |-> R_are_you_working]>>

defaultResponses == <<D_default1, D_default2, D_default3>>

(***************************************************************************)
(* response-generator.ts: ResponseGenerator.                               *)
(***************************************************************************)
\* generateConversationalResponse; random is the value of
\* Math.floor(Math.random() * defaultResponses.length)
generateConversationalResponse(query, random) ==
    LET lowerQuery == ToLower(query)
        hits == {i \in 1..Len(responses) : Includes(lowerQuery, responses[i].key)}
    IN  IF hits # {}
        THEN responses[CHOOSE i \in hits : \A j \in hits : i <= j].response
        ELSE defaultResponses[random + 1]

generateFallbackResponse(query) ==
    LET lowerQuery == ToLower(query)
    IN  IF \/ Includes(lowerQuery, P_hello)
           \/ Includes(lowerQuery, P_hi)
           \/ Includes(lowerQuery, S_hear_me)
        THEN F_greeting
        ELSE F_prefix \o query \o F_suffix

\* generate with no branch for conversational contexts
GenerateBranch_AlwaysTechnical(context) == "technical"

\* the branch generate takes inside its try block
GenerateBranch(context) ==
    IF context.isConversational THEN "conversational" ELSE "technical"

\* generate letting the error of the completion call escape
OnGenerateError_Rethrow(query) == [pc |-> "threw", value |-> <<>>]

\* the catch block of generate
OnGenerateError(query) ==
    [pc |-> "returned", value |-> generateFallbackResponse(query)]

\* generate, conversational: answered from the table, no await
GenerateConversational(random) ==
    /\ gPc = "start"
    /\ GenerateBranch(gCtx) = "conversational"
    /\ gResult' = generateConversationalResponse(gCtx.query, random)
    /\ gPc' = "returned"
    /\ UNCHANGED <<gCtx, gLlm, gLlmCalls>>

\* generate, technical: generateTechnicalResponse builds the prompt and
\* awaits geminiMain.generateContent
GenerateTechnical ==
    /\ gPc = "start"
    /\ GenerateBranch(gCtx) = "technical"
    /\ gLlmCalls' = gLlmCalls + 1
    /\ gPc' = "llm"
    /\ UNCHANGED <<gCtx, gLlm, gResult>>

\* the completion call resolves: result.response.text().trim()
LLMFulfil(text) ==
    /\ gPc = "llm"
    /\ gLlm' = "fulfilled"
    /\ gResult' = Trim(text)
    /\ gPc' = "returned"
    /\ UNCHANGED <<gCtx, gLlmCalls>>

\* the completion call rejects, or result.response.text() throws
LLMReject ==
    /\ gPc = "llm"
    /\ gLlm' = "rejected"
    /\ gResult' = OnGenerateError(gCtx.query).value
    /\ gPc' = OnGenerateError(gCtx.query).pc
    /\ UNCHANGED <<gCtx, gLlmCalls>>

(***************************************************************************)
(* The response generator on its own: every context over GenQueries.       *)
(***************************************************************************)
\* 'Use the useState hook. '
T_Answer ==
    <<"U","s","e"," ","t","h","e"," ","u","s","e","S","t","a","t","e"," ","h","o","o","k","."," ">>

T_Blank == <<" ", "\n", " ">>

LLMTexts == {<<>>, T_Blank, T_Answer}

GenQueries ==
    NamedQueries \cup Range(CONVERSATIONAL_PHRASES)
        \cup StringsUpTo(ShortAlphabet, MaxGenShortLen)

GenInit ==
    /\ gPc = "start"
    /\ gCtx \in {[query |-> q, correctedQuery |-> q, documentation |-> <<>>,
                  libraries |-> <<>>, isConversational |-> c] :
                    q \in GenQueries, c \in BOOLEAN}
    /\ gLlm = "none"
    /\ gLlmCalls = 0
    /\ gResult = <<>>
    /\ NonGenIdle

GenNext ==
    \/ \E random \in 0..(Len(defaultResponses) - 1) :
           GenerateConversational(random) /\ UNCHANGED nonGenVars
    \/ GenerateTechnical /\ UNCHANGED nonGenVars
    \/ \E text \in LLMTexts : LLMFulfil(text) /\ UNCHANGED nonGenVars
    \/ LLMReject /\ UNCHANGED nonGenVars

SpecGen == GenInit /\ [][GenNext]_vars

(***************************************************************************)
(* C6: generate called with isConversational true performs no call to the  *)
(* LLM client and returns a non-empty string, for every query string.      *)
(***************************************************************************)
C6_ConversationalNoLLM ==
    gCtx.isConversational =>
        /\ gLlmCalls = 0
        /\ gPc \in {"start", "returned"}
        /\ (gPc = "returned" => Len(gResult) > 0)

C6_Witness ==
    /\ gCtx.isConversational
    /\ gCtx.query = Q_WhatIsReact
    /\ gPc = "returned"
    /\ gResult = D_default2

(***************************************************************************)
(* C7: generate never throws; whenever the completion call fails it        *)
(* returns a deterministic fallback string.  As claimed, that string       *)
(* echoes the query and invites rephrasing for every query.                *)
(***************************************************************************)
C7_FallbackAlwaysEchoes ==
    /\ gPc # "threw"
    /\ (gLlm = "rejected") =>
          /\ gPc = "returned"
          /\ Includes(gResult, gCtx.query)
          /\ Includes(gResult, S_rephrasing)

(***************************************************************************)
(* C7 as amended: generate never throws; whenever the completion call      *)
(* fails it returns a string fixed by the query alone: the fixed greeting  *)
(* when the lower-cased query contains "hello", "hi" or "hear me", and     *)
(* otherwise the sentence that echoes the query and invites rephrasing.    *)
(***************************************************************************)
GreetingWords == {P_hello, P_hi, S_hear_me}

C7_FallbackOnLLMFailure ==
    /\ gPc # "threw"
    /\ (gLlm = "rejected") =>
          /\ gPc = "returned"
          /\ IF \E w \in GreetingWords : OccursIn(w, ToLower(gCtx.query))
             THEN gResult = F_greeting
             ELSE /\ gResult = F_prefix \o gCtx.query \o F_suffix
                  /\ Includes(gResult, gCtx.query)
                  /\ Includes(gResult, S_rephrasing)

C7_Witness ==
    /\ gLlm = "rejected"
    /\ gPc = "returned"
    /\ gCtx.query = Q_WhatIsReact
    /\ Includes(gResult, Q_WhatIsReact)
    /\ Includes(gResult, S_rephrasing)

(***************************************************************************)
(* mcp-client.ts: string literals of findLibraries and getDocumentation.   *)
(***************************************************************************)
\* 'data: '
S_data_prefix ==
    <<"d","a","t","a",":"," ">>

\* '[DONE]'
S_DONE ==
    <<"[","D","O","N","E","]">>

FileExtensions ==
    {<<".","j","s">>, <<".","t","s">>, <<".","j","s","o","n">>, <<".","m","d">>}

\* '\n=== Documentation from '
S_doc_marker_open ==
    <<"\n","=","=","="," ","D","o","c","u","m","e","n","t","a","t","i","o","n"," ","f","r","o",
      "m"," ">>

\* ' ===\n'
S_doc_marker_close ==
    <<" ","=","=","=","\n">>

(***************************************************************************)
(* The documentation service's answers.  A response body is the sequence   *)
(* of its lines (text.split("\n")).  A line is its text, or, for a line    *)
(* "data: <JSON text>", the JSON value it carries.  The JSON values        *)
(* told apart are {"result":{"content":[{"text": t}]}} (tag "text"), an    *)
(* object without result (tag "noResult") and null (tag "null").           *)
(***************************************************************************)
TextLine(t) == [kind |-> "text", text |-> t]

JsonLine(v) == [kind |-> "json", value |-> v]

JsonText(t) == [tag |-> "text", text |-> t]

JsonNoResult == [tag |-> "noResult"]

JsonNull == [tag |-> "null"]

Rejected(kind) == [kind |-> kind]

Response(status, body) == [kind |-> "response", status |-> status, body |-> body]

\* a client that reads the body of an error response as well
ResponseOk_Any(response) == TRUE

\* Response.ok
ResponseOk(response) == response.status >= 200 /\ response.status <= 299

\* line.startsWith("data: ")
IsDataLine(line) == line.kind = "json" \/ StartsWith(line.text, S_data_prefix)

\* line.substring(6).trim()
PayloadOf(line) ==
    IF line.kind = "json" THEN line
    ELSE TextLine(Trim(SubSeq(line.text, 7, Len(line.text))))

\* line && line !== "[DONE]"
IsChunk(payload) ==
    payload.kind = "json" \/ (payload.text # <<>> /\ payload.text # S_DONE)

\* a parser that keeps the empty payloads and the '[DONE]' sentinels
DataLines_KeepSentinels(body) ==
    LET dataOnly == SelectSeq(body, IsDataLine)
    IN  [i \in 1..Len(dataOnly) |-> PayloadOf(dataOnly[i])]

\* split("\n").filter(...).map(...).filter(...)
DataLines(body) ==
    LET dataOnly == SelectSeq(body, IsDataLine)
        payloads == [i \in 1..Len(dataOnly) |-> PayloadOf(dataOnly[i])]
    IN  SelectSeq(payloads, IsChunk)

\* whether JSON.parse(payload) returns; it throws on anything else
ParsesAsJson(payload) == payload.kind = "json"

\* data?.result?.content?.[0]?.text
ContentText(data) ==
    IF data.tag = "text" THEN [defined |-> TRUE, text |-> data.text]
    ELSE [defined |-> FALSE, text |-> <<>>]

(***************************************************************************)
(* mcp-client.ts: MCPClient.findLibraries.                                 *)
(***************************************************************************)
Digits == {"0", "1", "2", "3", "4", "5", "6", "7", "8", "9"}

\* [a-zA-Z0-9_-]
OrgChars == Range(Lowers) \cup Range(Uppers) \cup Digits \cup {"_", "-"}

\* [a-zA-Z0-9_.-]
RepoChars == OrgChars \cup {"."}

\* the index behind the longest run of class characters that starts at i
RunEnd(s, i, class) ==
    LET stops == {k \in i..Len(s) : s[k] \notin class}
    IN  IF stops = {} THEN Len(s) + 1
        ELSE CHOOSE k \in stops : \A j \in stops : k <= j

\* content.match(/\/[a-zA-Z0-9_-]+\/[a-zA-Z0-9_.-]+/g) || []
RECURSIVE MatchIdsFrom(_, _)
MatchIdsFrom(s, i) ==
    IF i > Len(s) THEN <<>>
    ELSE IF s[i] # "/" THEN MatchIdsFrom(s, i + 1)
    ELSE LET a == RunEnd(s, i + 1, OrgChars)
         IN  IF a = i + 1 \/ a > Len(s) \/ s[a] # "/" THEN MatchIdsFrom(s, i + 1)
             ELSE LET b == RunEnd(s, a + 1, RepoChars)
                  IN  IF b = a + 1 THEN MatchIdsFrom(s, i + 1)
                      ELSE <<SubSeq(s, i, b - 1)>> \o MatchIdsFrom(s, b)

MatchLibraryIds(content) == MatchIdsFrom(content, 1)

\* !m.match(/\.(js|ts|json|md)$/) && m !== "/org/project"
IsLibraryId(m) ==
    /\ ~ \E ext \in FileExtensions : EndsWith(m, ext)
    /\ m # L_OrgProject

Returned(value) == [threw |-> FALSE, value |-> value]

Thrown == [threw |-> TRUE, value |-> <<>>]

\* the try block of findLibraries
FindLibrariesTry(outcome) ==
    IF outcome.kind # "response" THEN Thrown
    ELSE IF ~ResponseOk(outcome) THEN Returned(<<>>)
    ELSE LET dataLines == DataLines(outcome.body)
         IN  IF Len(dataLines) > 0
             THEN LET last == dataLines[Len(dataLines)]
                  IN  IF ~ParsesAsJson(last) THEN Thrown
                      ELSE LET found == ContentText(last.value)
                               content == IF found.defined THEN found.text ELSE <<>>
                           IN  Returned(SelectSeq(MatchLibraryIds(content), IsLibraryId))
             ELSE Returned(<<>>)

\* findLibraries: its catch block returns []
findLibraries(outcome) ==
    LET tried == FindLibrariesTry(outcome)
    IN  IF tried.threw THEN <<>> ELSE tried.value

(***************************************************************************)
(* mcp-client.ts: MCPClient.getDocumentation.                              *)
(***************************************************************************)
Null == [isNull |-> TRUE, text |-> <<>>]

Value(text) == [isNull |-> FALSE, text |-> text]

\* `\n=== Documentation from ${libraryId} ===\n${content}`
DocSection(libraryId, content) ==
    S_doc_marker_open \o libraryId \o S_doc_marker_close \o content

\* the try block of the async callback of docPromises
FetchDocTry(libraryId, outcome) ==
    IF outcome.kind # "response" THEN Thrown
    ELSE IF ~ResponseOk(outcome) THEN Returned(Null)
    ELSE LET dataLines == DataLines(outcome.body)
         IN  IF Len(dataLines) > 0
             THEN LET last == dataLines[Len(dataLines)]
                  IN  IF ~ParsesAsJson(last) THEN Thrown
                      ELSE LET content == ContentText(last.value)
                           IN  IF content.defined /\ content.text # <<>>
                               THEN Returned(Value(DocSection(libraryId, content.text)))
                               ELSE Returned(Null)
             ELSE Returned(Null)

\* the async callback of docPromises: what its promise is fulfilled with
FetchDoc(libraryId, outcome) ==
    LET tried == FetchDocTry(libraryId, outcome)
    IN  IF tried.threw THEN Null ELSE tried.value

\* Array.prototype.join
RECURSIVE Join(_, _)
Join(parts, sep) ==
    IF parts = <<>> THEN <<>>
    ELSE IF Len(parts) = 1 THEN parts[1]
    ELSE parts[1] \o sep \o Join(Tail(parts), sep)

PendingFetch == [state |-> "pending", outcome |-> [kind |-> "none"], value |-> Null]

IsFulfilledValue(f) == ~f.value.isNull

\* a client that joins the value of every promise, null ones as empty text
CombineDocs_KeepNull(fetches) ==
    Join([i \in 1..Len(fetches) |-> fetches[i].value.text], <<"\n">>)

\* results.forEach(... docs.push(result.value)) and docs.join("\n")
CombineDocs(fetches) ==
    LET kept == SelectSeq(fetches, IsFulfilledValue)
    IN  Join([i \in 1..Len(kept) |-> kept[i].value.text], <<"\n">>)

(***************************************************************************)
(* mcp-client.ts: MCPClient.search, step by step.                          *)
(***************************************************************************)
\* search calls findLibraries, which issues the resolve-library-id request
SearchStart ==
    /\ mPc = "start"
    /\ mPc' = "resolving"
    /\ UNCHANGED <<mQuery, mResolve, mLibraryIds, mTop, mFetch, mOrder, mResult>>

\* the resolve request settles; findLibraries returns; with no identifier
\* search returns the empty result, otherwise it ranks and getDocumentation
\* issues one get-library-docs request per selected library
ResolveSettle(outcome) ==
    /\ mPc = "resolving"
    /\ mResolve' = outcome
    /\ LET libraryIds == findLibraries(outcome)
       IN  /\ mLibraryIds' = libraryIds
           /\ IF Len(libraryIds) = 0
              THEN /\ mPc' = "returned"
                   /\ mResult' = [documentation |-> <<>>, libraries |-> <<>>]
                   /\ UNCHANGED <<mTop, mFetch>>
              ELSE LET topLibraries == selectTopLibraries(libraryIds, mQuery)
                   IN  /\ mTop' = topLibraries
                       /\ mFetch' = [i \in 1..Len(topLibraries) |-> PendingFetch]
                       /\ mPc' = "fetching"
                       /\ UNCHANGED mResult
    /\ UNCHANGED <<mQuery, mOrder>>

\* a client that returns as soon as one request has settled
FetchSettle_First(i, outcome) ==
    /\ mPc = "fetching"
    /\ i \in 1..Len(mFetch)
    /\ mFetch[i].state = "pending"
    /\ LET settled == [mFetch EXCEPT ![i] = [state |-> "settled",
                                              outcome |-> outcome,
                                              value |-> FetchDoc(mTop[i], outcome)]]
       IN  /\ mFetch' = settled
           /\ mOrder' = Append(mOrder, i)
           /\ mPc' = "returned"
           /\ mResult' = [documentation |-> CombineDocs(settled), libraries |-> mTop]
    /\ UNCHANGED <<mQuery, mResolve, mLibraryIds, mTop>>

\* the request of the i-th selected library settles and its promise is
\* fulfilled; when it is the last one, Promise.allSettled resolves and
\* search returns the combined documentation
\* a client that pushes each section when its request settles
FetchSettle_InCompletionOrder(i, outcome) ==
    /\ mPc = "fetching"
    /\ i \in 1..Len(mFetch)
    /\ mFetch[i].state = "pending"
    /\ LET settled == [mFetch EXCEPT ![i] = [state |-> "settled",
                                              outcome |-> outcome,
                                              value |-> FetchDoc(mTop[i], outcome)]]
           order == Append(mOrder, i)
       IN  /\ mFetch' = settled
           /\ mOrder' = order
           /\ IF \A j \in 1..Len(settled) : settled[j].state = "settled"
              THEN /\ mPc' = "returned"
                   /\ mResult' = [documentation |->
                                      CombineDocs([k \in 1..Len(order) |-> settled[order[k]]]),
                                  libraries |-> mTop]
              ELSE UNCHANGED <<mPc, mResult>>
    /\ UNCHANGED <<mQuery, mResolve, mLibraryIds, mTop>>

FetchSettle(i, outcome) ==
    /\ mPc = "fetching"
    /\ i \in 1..Len(mFetch)
    /\ mFetch[i].state = "pending"
    /\ LET settled == [mFetch EXCEPT ![i] = [state |-> "settled",
                                              outcome |-> outcome,
                                              value |-> FetchDoc(mTop[i], outcome)]]
       IN  /\ mFetch' = settled
           /\ mOrder' = Append(mOrder, i)
           /\ IF \A j \in 1..Len(settled) : settled[j].state = "settled"
              THEN /\ mPc' = "returned"
                   /\ mResult' = [documentation |-> CombineDocs(settled),
                                  libraries |-> mTop]
              ELSE UNCHANGED <<mPc, mResult>>
    /\ UNCHANGED <<mQuery, mResolve, mLibraryIds, mTop>>

(***************************************************************************)
(* The documentation client on its own.                                    *)
(***************************************************************************)
\* 'event: message'
T_EventLine ==
    <<"e","v","e","n","t",":"," ","m","e","s","s","a","g","e">>

\* 'data: [DONE]'
T_DataDone ==
    <<"d","a","t","a",":"," ","[","D","O","N","E","]">>

\* 'data:   '
T_DataBlank ==
    <<"d","a","t","a",":"," "," "," ">>

\* 'data:{"result":{}}'
T_DataNoSpace ==
    <<"d","a","t","a",":","{","\"","r","e","s","u","l","t","\"",":","{","}","}">>

\* 'data: {"result":'
T_DataBroken ==
    <<"d","a","t","a",":"," ","{","\"","r","e","s","u","l","t","\"",":">>

\* 'Available libraries: '
T_Found ==
    <<"A","v","a","i","l","a","b","l","e"," ","l","i","b","r","a","r","i","e","s",":"," ">>

\* ', then '
T_Sep ==
    <<","," ","t","h","e","n"," ">>

\* 'Install with npm.'
T_DocsAlpha ==
    <<"I","n","s","t","a","l","l"," ","w","i","t","h"," ","n","p","m",".">>

\* 'Call auth() first.'
T_DocsBeta ==
    <<"C","a","l","l"," ","a","u","t","h","(",")"," ","f","i","r","s","t",".">>

MentionPool == {L_BetterAuth, L_NextAuth, L_AcmeDemo, L_OrgProject, L_ConfigJs}

\* what resolve-library-id may say: a lead-in and up to MaxMentions paths
ResolveContents ==
    {T_Found \o Join(mentions, T_Sep) : mentions \in SeqsUpTo(MentionPool, MaxMentions)}

ResolveValues ==
    {JsonText(c) : c \in ResolveContents} \cup {JsonNoResult, JsonNull}

\* the bodies that carry the value v, as their last chunk or not
BodiesOf(v, older) ==
    {<<TextLine(T_EventLine), JsonLine(v)>>,
     <<JsonLine(older), JsonLine(v), TextLine(T_DataDone), TextLine(T_DataBlank)>>,
     <<JsonLine(v), TextLine(T_DataBroken)>>,
     <<TextLine(T_EventLine), TextLine(T_DataNoSpace)>>}

ResolveOutcomes ==
    {Rejected("networkError"), Rejected("timeout")}
        \cup {Response(200, b) :
                b \in UNION {BodiesOf(v, JsonText(T_Found \o L_React)) : v \in ResolveValues}}
        \cup {Response(500, <<TextLine(T_EventLine), JsonLine(v)>>) : v \in ResolveValues}

FetchValues == {JsonText(T_DocsAlpha), JsonText(T_DocsBeta), JsonText(<<>>), JsonNoResult}

FetchOutcomes ==
    {Rejected("networkError"), Rejected("timeout")}
        \cup {Response(200, <<TextLine(T_EventLine), JsonLine(v), TextLine(T_DataDone)>>) :
                v \in FetchValues}
        \cup {Response(200, <<JsonLine(JsonText(T_DocsAlpha)), TextLine(T_DataBroken)>>),
              Response(200, <<JsonLine(JsonText(T_DocsAlpha)), JsonLine(JsonText(T_DocsBeta)),
                              TextLine(T_DataBlank)>>),
              Response(200, <<TextLine(T_EventLine)>>),
              Response(503, <<JsonLine(JsonText(T_DocsAlpha))>>)}

McpQueries == {Q_BetterAuth, Q_Docs}

McpInit ==
    /\ mPc = "start"
    /\ mQuery \in McpQueries
    /\ mResolve = [kind |-> "none"]
    /\ mLibraryIds = <<>>
    /\ mTop = <<>>
    /\ mFetch = <<>>
    /\ mOrder = <<>>
    /\ mResult = NoResult
    /\ NonMcpIdle

McpNext ==
    \/ SearchStart /\ UNCHANGED nonMcpVars
    \/ \E outcome \in ResolveOutcomes : ResolveSettle(outcome) /\ UNCHANGED nonMcpVars
    \/ \E i \in 1..MAX_LIBRARIES, outcome \in FetchOutcomes :
           FetchSettle(i, outcome) /\ UNCHANGED nonMcpVars

SpecMcp == McpInit /\ [][McpNext]_vars

(***************************************************************************)
(* C1, C2: the documentation client.                                       *)
(***************************************************************************)
\* the library paths the modelled answers can mention and the client keeps
KnownLibraryIds == {L_BetterAuth, L_NextAuth, L_AcmeDemo, L_React}

\* the resolve step failed in one of the ways the claim lists: the request
\* was rejected or timed out, the status is not 2xx, the last data chunk is
\* not JSON, or the answer carries no library identifier
C1_ResolveFailed ==
    \/ mResolve.kind \in {"networkError", "timeout"}
    \/ /\ mResolve.kind = "response"
       /\ \/ mResolve.status < 200
          \/ mResolve.status > 299
          \/ mResolve.body[Len(mResolve.body)] = TextLine(T_DataBroken)
          \/ LET dataLines == DataLines(mResolve.body)
             IN  \/ dataLines = <<>>
                 \/ /\ dataLines[Len(dataLines)].kind = "json"
                    /\ LET data == dataLines[Len(dataLines)].value
                       IN  \/ data.tag # "text"
                           \/ ~ \E id \in KnownLibraryIds : OccursIn(id, data.text)

\* C1: search always settles by returning (it has no rejected outcome), and
\* when the resolve step fails by network error, timeout, non-2xx status,
\* an unparsable last data chunk or an answer without library identifiers,
\* it returns exactly {documentation: "", libraries: []} without having
\* requested any documentation.
C1_SearchDegradesToEmpty ==
    /\ mPc \in {"idle", "start", "resolving", "fetching", "returned"}
    /\ (mPc \in {"fetching", "returned"} /\ C1_ResolveFailed) =>
           /\ mPc = "returned"
           /\ mResult = [documentation |-> <<>>, libraries |-> <<>>]
           /\ mFetch = <<>>

\* search returned after a 200 answer whose earlier chunk names a library
\* but whose last data chunk is not JSON
C1_Witness ==
    /\ mPc = "returned"
    /\ mResolve.kind = "response"
    /\ mResolve.status = 200
    /\ Len(mResolve.body) = 2
    /\ mResolve.body[1].kind = "json"
    /\ mResolve.body[1].value.tag = "text"
    /\ OccursIn(L_BetterAuth, mResolve.body[1].value.text)
    /\ mResolve.body[2] = TextLine(T_DataBroken)
    /\ mResult = [documentation |-> <<>>, libraries |-> <<>>]

\* the request of a selected library failed: rejected, timed out, answered
\* with a non-2xx status, or answered with an unparsable last chunk
C2_Failed(f) ==
    /\ f.state = "settled"
    /\ \/ f.outcome.kind \in {"networkError", "timeout"}
       \/ /\ f.outcome.kind = "response"
          /\ \/ f.outcome.status < 200
             \/ f.outcome.status > 299
             \/ f.outcome.body[Len(f.outcome.body)] = TextLine(T_DataBroken)

\* the request of a selected library was answered with the content c
C2_SucceededWith(f, c) ==
    /\ f.state = "settled"
    /\ f.outcome.kind = "response"
    /\ f.outcome.status = 200
    /\ Len(f.outcome.body) = 3
    /\ f.outcome.body[2] = JsonLine(JsonText(c))
    /\ f.outcome.body[3] = TextLine(T_DataDone)

IsNotQuote(c) == c \notin {"'", "\""}

\* a corrector that returns the trimmed completion with its quotes
correct_KeepQuotes(query, outcome) ==
    IF outcome.kind # "fulfilled" THEN query
    ELSE IF Trim(outcome.text) # <<>> THEN Trim(outcome.text) ELSE query

\* correct: the text of the completion, trimmed and without quotes, or the
\* query when that is empty; the query when the completion call fails
correct(query, outcome) ==
    IF outcome.kind # "fulfilled" THEN query
    ELSE LET correctedQuery == SelectSeq(Trim(outcome.text), IsNotQuote)
         IN  IF correctedQuery # <<>> THEN correctedQuery ELSE query

(***************************************************************************)
(* The voice-query route handler, modular versions: reply texts,           *)
(* ensureVoiceLength and getErrorResponse.                                 *)
(***************************************************************************)
MAX_VOICE_RESPONSE_LENGTH == 400

V_DidntCatch ==
    <<"I"," ","d","i","d","n","'","t"," ","c","a","t","c","h"," ","t","h","a","t","."," ","C",
      "o","u","l","d"," ","y","o","u"," ","p","l","e","a","s","e"," ","r","e","p","e","a","t",
      " ","y","o","u","r"," ","q","u","e","s","t","i","o","n","?">>

V_TakingLonger ==
    <<"T","h","e"," ","r","e","s","p","o","n","s","e"," ","i","s"," ","t","a","k","i","n","g",
      " ","l","o","n","g","e","r"," ","t","h","a","n"," ","e","x","p","e","c","t","e","d",".",
      " ","P","l","e","a","s","e"," ","t","r","y"," ","a","s","k","i","n","g"," ","y","o","u",
      "r"," ","q","u","e","s","t","i","o","n"," ","a","g","a","i","n",".">>

V_TroubleConnecting ==
    <<"I","'","m"," ","h","a","v","i","n","g"," ","t","r","o","u","b","l","e"," ","c","o","n",
      "n","e","c","t","i","n","g"," ","t","o"," ","t","h","e"," ","d","o","c","u","m","e","n",
      "t","a","t","i","o","n","."," ","P","l","e","a","s","e"," ","c","h","e","c","k"," ","y",
      "o","u","r"," ","c","o","n","n","e","c","t","i","o","n"," ","a","n","d"," ","t","r","y",
      " ","a","g","a","i","n",".">>

V_Issue ==
    <<"I"," ","e","n","c","o","u","n","t","e","r","e","d"," ","a","n"," ","i","s","s","u","e",
      " ","p","r","o","c","e","s","s","i","n","g"," ","y","o","u","r"," ","q","u","e","s","t",
      "i","o","n","."," ","C","o","u","l","d"," ","y","o","u"," ","p","l","e","a","s","e"," ",
      "r","e","p","h","r","a","s","e"," ","i","t"," ","a","n","d"," ","t","r","y"," ","a","g",
      "a","i","n","?">>

V_TroubleProcessing ==
    <<"I","'","m"," ","h","a","v","i","n","g"," ","t","r","o","u","b","l","e"," ","p","r","o",
      "c","e","s","s","i","n","g"," ","y","o","u","r"," ","q","u","e","s","t","i","o","n",".",
      " ","C","o","u","l","d"," ","y","o","u"," ","p","l","e","a","s","e"," ","t","r","y"," ",
      "a","s","k","i","n","g"," ","a","g","a","i","n","?">>

S_timeout ==
    <<"t","i","m","e","o","u","t">>

S_network ==
    <<"n","e","t","w","o","r","k">>

\* the messages of the errors the handlers can catch
E_UnexpectedEnd ==
    <<"U","n","e","x","p","e","c","t","e","d"," ","e","n","d"," ","o","f"," ","J","S","O","N",
      " ","i","n","p","u","t">>

E_NotAFunction ==
    <<"q","u","e","r","y",".","t","o","L","o","w","e","r","C","a","s","e"," ","i","s"," ","n",
      "o","t"," ","a"," ","f","u","n","c","t","i","o","n">>

E_Undefined ==
    <<"C","a","n","n","o","t"," ","r","e","a","d"," ","p","r","o","p","e","r","t","i","e","s",
      " ","o","f"," ","u","n","d","e","f","i","n","e","d"," ","(","r","e","a","d","i","n","g",
      " ","'","t","o","L","o","w","e","r","C","a","s","e","'",")">>

E_TrimNotAFunction ==
    <<"q","u","e","r","y",".","t","r","i","m"," ","i","s"," ","n","o","t"," ","a"," ","f","u",
      "n","c","t","i","o","n">>

E_InvalidTime ==
    <<"I","n","v","a","l","i","d"," ","t","i","m","e"," ","v","a","l","u","e">>

SentenceEnds == {".", "!", "?"}

\* the index behind the longest run of characters outside class from i on
RunEndNot(s, i, class) ==
    LET stops == {k \in i..Len(s) : s[k] \in class}
    IN  IF stops = {} THEN Len(s) + 1
        ELSE CHOOSE k \in stops : \A j \in stops : k <= j

\* text.match(/[^.!?]+[.!?]+/g), the empty sequence standing for null
RECURSIVE MatchSentencesFrom(_, _)
MatchSentencesFrom(s, i) ==
    IF i > Len(s) THEN <<>>
    ELSE IF s[i] \in SentenceEnds THEN MatchSentencesFrom(s, i + 1)
    ELSE LET a == RunEndNot(s, i, SentenceEnds)
         IN  IF a > Len(s) THEN <<>>
             ELSE LET b == RunEnd(s, a, SentenceEnds)
                  IN  <<SubSeq(s, i, b - 1)>> \o MatchSentencesFrom(s, b)

\* the for loop of ensureVoiceLength
RECURSIVE TakeSentences(_, _)
TakeSentences(sentences, result) ==
    IF sentences = <<>> THEN result
    ELSE IF Len(result \o Head(sentences)) > MAX_VOICE_RESPONSE_LENGTH - 20 THEN result
    ELSE TakeSentences(Tail(sentences), result \o Head(sentences))

ensureVoiceLength(text) ==
    IF text = <<>> \/ Len(text) <= MAX_VOICE_RESPONSE_LENGTH THEN text
    ELSE LET matched == MatchSentencesFrom(text, 1)
             sentences == IF matched = <<>> THEN <<text>> ELSE matched
             taken == TakeSentences(sentences, <<>>)
             result == IF taken = <<>>
                       THEN SubSeq(text, 1, MAX_VOICE_RESPONSE_LENGTH - 3) \o <<".", ".", ".">>
                       ELSE taken
         IN  Trim(result)

getErrorResponse(message) ==
    IF Includes(message, S_timeout) THEN V_TakingLonger
    ELSE IF Includes(message, S_network) THEN V_TroubleConnecting
    ELSE V_Issue

(***************************************************************************)
(* voice-query/route.ts: reply texts and generateIntelligentFallback.      *)
(***************************************************************************)
V_QueryRequired ==
    <<"Q","u","e","r","y"," ","i","s"," ","r","e","q","u","i","r","e","d">>

V_ProvideValid ==
    <<"P","l","e","a","s","e"," ","p","r","o","v","i","d","e"," ","a"," ","v","a","l","i","d",
      " ","q","u","e","s","t","i","o","n",".">>

V_AskingAboutColon ==
    <<"I"," ","u","n","d","e","r","s","t","a","n","d"," ","y","o","u","'","r","e"," ","a","s",
      "k","i","n","g"," ","a","b","o","u","t",":"," ","\"">>

V_KnowledgeBase ==
    <<"\"","."," ","H","o","w","e","v","e","r",","," ","I","'","m"," ","c","u","r","r","e","n",
      "t","l","y"," ","h","a","v","i","n","g"," ","t","r","o","u","b","l","e"," ","a","c","c",
      "e","s","s","i","n","g"," ","m","y"," ","k","n","o","w","l","e","d","g","e"," ","b","a",
      "s","e","."," ","C","o","u","l","d"," ","y","o","u"," ","p","l","e","a","s","e"," ","r",
      "e","p","h","r","a","s","e"," ","y","o","u","r"," ","q","u","e","s","t","i","o","n"," ",
      "o","r"," ","t","r","y"," ","a","s","k","i","n","g"," ","a","b","o","u","t"," ","a"," ",
      "s","p","e","c","i","f","i","c"," ","t","e","c","h","n","o","l","o","g","y"," ","l","i",
      "k","e"," ","N","e","x","t",".","j","s",","," ","R","e","a","c","t",","," ","o","r"," ",
      "P","y","t","h","o","n","?">>

V_DifficultiesFor ==
    <<"\"","."," ","I","'","m"," ","h","a","v","i","n","g"," ","s","o","m","e"," ","t","e","c",
      "h","n","i","c","a","l"," ","d","i","f","f","i","c","u","l","t","i","e","s"," ","r","i",
      "g","h","t"," ","n","o","w",","," ","b","u","t"," ","I"," ","c","a","n"," ","s","t","i",
      "l","l"," ","h","e","l","p","!"," ","F","o","r"," ">>

V_Recommend ==
    <<","," ","I"," ","r","e","c","o","m","m","e","n","d"," ","c","h","e","c","k","i","n","g",
      " ","t","h","e"," ","o","f","f","i","c","i","a","l"," ","d","o","c","u","m","e","n","t",
      "a","t","i","o","n"," ","f","o","r"," ","t","h","e"," ","m","o","s","t"," ","u","p","-",
      "t","o","-","d","a","t","e"," ","i","n","f","o","r","m","a","t","i","o","n",".">>

V_EmptyResponse ==
    <<"I"," ","r","e","c","e","i","v","e","d"," ","y","o","u","r"," ","q","u","e","s","t","i",
      "o","n"," ","b","u","t"," ","g","o","t"," ","a","n"," ","e","m","p","t","y"," ","r","e",
      "s","p","o","n","s","e","."," ","C","o","u","l","d"," ","y","o","u"," ","p","l","e","a",
      "s","e"," ","r","e","p","h","r","a","s","e"," ","y","o","u","r"," ","q","u","e","s","t",
      "i","o","n","?">>

V_Difficulties ==
    <<"I","'","m"," ","e","x","p","e","r","i","e","n","c","i","n","g"," ","s","o","m","e"," ",
      "t","e","c","h","n","i","c","a","l"," ","d","i","f","f","i","c","u","l","t","i","e","s",
      ","," ","b","u","t"," ","I","'","m"," ","s","t","i","l","l"," ","h","e","r","e"," ","t",
      "o"," ","h","e","l","p","!"," ","C","o","u","l","d"," ","y","o","u"," ","p","l","e","a",
      "s","e"," ","t","r","y"," ","r","e","p","h","r","a","s","i","n","g"," ","y","o","u","r",
      " ","q","u","e","s","t","i","o","n","?"," ","I","'","m"," ","g","r","e","a","t"," ","a",
      "t"," ","h","e","l","p","i","n","g"," ","w","i","t","h"," ","p","r","o","g","r","a","m",
      "m","i","n","g"," ","t","o","p","i","c","s"," ","l","i","k","e"," ","N","e","x","t",".",
      "j","s",","," ","R","e","a","c","t",","," ","T","y","p","e","S","c","r","i","p","t",",",
      " ","a","n","d"," ","P","y","t","h","o","n",".">>

K_next ==
    <<"n","e","x","t">>

K_react ==
    <<"r","e","a","c","t">>

K_typescript ==
    <<"t","y","p","e","s","c","r","i","p","t">>

K_python ==
    <<"p","y","t","h","o","n">>

K_javascript ==
    <<"j","a","v","a","s","c","r","i","p","t">>

K_js ==
    <<"j","s">>

K_cloudflare ==
    <<"c","l","o","u","d","f","l","a","r","e">>

N_NextJs ==
    <<"N","e","x","t",".","j","s">>

N_React ==
    <<"R","e","a","c","t">>

N_TypeScript ==
    <<"T","y","p","e","S","c","r","i","p","t">>

N_ThisTopic ==
    <<"t","h","i","s"," ","t","o","p","i","c">>

IF_NextPre ==
    <<"F","o","r"," ","N","e","x","t",".","j","s"," ","q","u","e","s","t","i","o","n","s"," ",
      "l","i","k","e"," ","\"">>

IF_NextSuf ==
    <<"\"",","," ","I"," ","r","e","c","o","m","m","e","n","d"," ","c","h","e","c","k","i","n",
      "g"," ","t","h","e"," ","o","f","f","i","c","i","a","l"," ","N","e","x","t",".","j","s",
      " ","d","o","c","u","m","e","n","t","a","t","i","o","n"," ","a","t"," ","n","e","x","t",
      "j","s",".","o","r","g","."," ","T","h","e","y"," ","h","a","v","e"," ","e","x","c","e",
      "l","l","e","n","t"," ","g","u","i","d","e","s"," ","o","n"," ","r","o","u","t","i","n",
      "g",","," ","A","P","I"," ","r","o","u","t","e","s",","," ","s","e","r","v","e","r"," ",
      "c","o","m","p","o","n","e","n","t","s",","," ","a","n","d"," ","d","e","p","l","o","y",
      "m","e","n","t","."," ","Y","o","u"," ","c","a","n"," ","a","l","s","o"," ","f","i","n",
      "d"," ","g","r","e","a","t"," ","e","x","a","m","p","l","e","s"," ","i","n"," ","t","h",
      "e","i","r"," ","G","i","t","H","u","b"," ","r","e","p","o","s","i","t","o","r","y",".">>

IF_ReactPre ==
    <<"F","o","r"," ","R","e","a","c","t"," ","q","u","e","s","t","i","o","n","s"," ","a","b",
      "o","u","t"," ","\"">>

IF_ReactSuf ==
    <<"\"",","," ","t","h","e"," ","o","f","f","i","c","i","a","l"," ","R","e","a","c","t"," ",
      "d","o","c","u","m","e","n","t","a","t","i","o","n"," ","a","t"," ","r","e","a","c","t",
      ".","d","e","v"," ","i","s"," ","y","o","u","r"," ","b","e","s","t"," ","r","e","s","o",
      "u","r","c","e","."," ","T","h","e","y"," ","h","a","v","e"," ","c","o","m","p","r","e",
      "h","e","n","s","i","v","e"," ","g","u","i","d","e","s"," ","o","n"," ","h","o","o","k",
      "s",","," ","c","o","m","p","o","n","e","n","t","s",","," ","s","t","a","t","e"," ","m",
      "a","n","a","g","e","m","e","n","t",","," ","a","n","d"," ","b","e","s","t"," ","p","r",
      "a","c","t","i","c","e","s","."," ","T","h","e"," ","R","e","a","c","t"," ","t","e","a",
      "m"," ","k","e","e","p","s"," ","i","t"," ","v","e","r","y"," ","u","p","-","t","o","-",
      "d","a","t","e",".">>

IF_TsPre ==
    <<"F","o","r"," ","T","y","p","e","S","c","r","i","p","t"," ","q","u","e","s","t","i","o",
      "n","s"," ","l","i","k","e"," ","\"">>

IF_TsSuf ==
    <<"\"",","," ","I"," ","r","e","c","o","m","m","e","n","d"," ","t","h","e"," ","T","y","p",
      "e","S","c","r","i","p","t"," ","h","a","n","d","b","o","o","k"," ","a","t"," ","t","y",
      "p","e","s","c","r","i","p","t","l","a","n","g",".","o","r","g","."," ","I","t"," ","c",
      "o","v","e","r","s"," ","t","y","p","e","s",","," ","i","n","t","e","r","f","a","c","e",
      "s",","," ","g","e","n","e","r","i","c","s",","," ","a","n","d"," ","a","d","v","a","n",
      "c","e","d"," ","p","a","t","t","e","r","n","s","."," ","T","h","e"," ","p","l","a","y",
      "g","r","o","u","n","d"," ","t","o","o","l"," ","t","h","e","r","e"," ","i","s"," ","g",
      "r","e","a","t"," ","f","o","r"," ","t","e","s","t","i","n","g"," ","T","y","p","e","S",
      "c","r","i","p","t"," ","c","o","n","c","e","p","t","s",".">>

IF_PyPre ==
    <<"F","o","r"," ","P","y","t","h","o","n"," ","q","u","e","s","t","i","o","n","s"," ","a",
      "b","o","u","t"," ","\"">>

IF_PySuf ==
    <<"\"",","," ","c","h","e","c","k"," ","t","h","e"," ","o","f","f","i","c","i","a","l"," ",
      "P","y","t","h","o","n"," ","d","o","c","u","m","e","n","t","a","t","i","o","n"," ","a",
      "t"," ","p","y","t","h","o","n",".","o","r","g","."," ","T","h","e","y"," ","h","a","v",
      "e"," ","e","x","c","e","l","l","e","n","t"," ","t","u","t","o","r","i","a","l","s",",",
      " ","l","i","b","r","a","r","y"," ","r","e","f","e","r","e","n","c","e","s",","," ","a",
      "n","d"," ","c","o","m","m","u","n","i","t","y"," ","g","u","i","d","e","s","."," ","P",
      "y","t","h","o","n","'","s"," ","d","o","c","u","m","e","n","t","a","t","i","o","n"," ",
      "i","s"," ","k","n","o","w","n"," ","f","o","r"," ","b","e","i","n","g"," ","v","e","r",
      "y"," ","b","e","g","i","n","n","e","r","-","f","r","i","e","n","d","l","y",".">>

IF_JsPre ==
    <<"F","o","r"," ","J","a","v","a","S","c","r","i","p","t"," ","q","u","e","s","t","i","o",
      "n","s"," ","l","i","k","e"," ","\"">>

IF_JsSuf ==
    <<"\"",","," ","M","D","N"," ","W","e","b"," ","D","o","c","s"," ","(","d","e","v","e","l",
      "o","p","e","r",".","m","o","z","i","l","l","a",".","o","r","g",")"," ","i","s"," ","t",
      "h","e"," ","g","o","l","d"," ","s","t","a","n","d","a","r","d","."," ","T","h","e","y",
      " ","h","a","v","e"," ","c","o","m","p","r","e","h","e","n","s","i","v","e"," ","g","u",
      "i","d","e","s"," ","o","n"," ","E","S","6","+",","," ","a","s","y","n","c","/","a","w",
      "a","i","t",","," ","D","O","M"," ","m","a","n","i","p","u","l","a","t","i","o","n",",",
      " ","a","n","d"," ","m","o","d","e","r","n"," ","J","a","v","a","S","c","r","i","p","t",
      " ","f","e","a","t","u","r","e","s",".">>

IF_CfPre ==
    <<"F","o","r"," ","C","l","o","u","d","f","l","a","r","e"," ","q","u","e","s","t","i","o",
      "n","s"," ","a","b","o","u","t"," ","\"">>

IF_CfSuf ==
    <<"\"",","," ","c","h","e","c","k"," ","o","u","t"," ","t","h","e"," ","C","l","o","u","d",
      "f","l","a","r","e"," ","D","e","v","e","l","o","p","e","r","s"," ","d","o","c","u","m",
      "e","n","t","a","t","i","o","n"," ","a","t"," ","d","e","v","e","l","o","p","e","r","s",
      ".","c","l","o","u","d","f","l","a","r","e",".","c","o","m","."," ","T","h","e","y"," ",
      "h","a","v","e"," ","g","r","e","a","t"," ","g","u","i","d","e","s"," ","f","o","r"," ",
      "W","o","r","k","e","r","s",","," ","P","a","g","e","s",","," ","R","2",","," ","a","n",
      "d"," ","o","t","h","e","r"," ","s","e","r","v","i","c","e","s"," ","w","i","t","h"," ",
      "p","r","a","c","t","i","c","a","l"," ","e","x","a","m","p","l","e","s",".">>

IF_GenericPre ==
    <<"I"," ","u","n","d","e","r","s","t","a","n","d"," ","y","o","u","'","r","e"," ","a","s",
      "k","i","n","g"," ","a","b","o","u","t"," ","\"">>

IF_GenericSuf ==
    <<"\"","."," ","W","h","i","l","e"," ","I","'","m"," ","h","a","v","i","n","g"," ","s","o",
      "m","e"," ","t","e","c","h","n","i","c","a","l"," ","d","i","f","f","i","c","u","l","t",
      "i","e","s"," ","a","c","c","e","s","s","i","n","g"," ","m","y"," ","f","u","l","l"," ",
      "k","n","o","w","l","e","d","g","e"," ","b","a","s","e"," ","r","i","g","h","t"," ","n",
      "o","w",","," ","I"," ","c","a","n"," ","s","t","i","l","l"," ","h","e","l","p","!"," ",
      "T","r","y"," ","a","s","k","i","n","g"," ","m","o","r","e"," ","s","p","e","c","i","f",
      "i","c"," ","q","u","e","s","t","i","o","n","s"," ","a","b","o","u","t"," ","p","r","o",
      "g","r","a","m","m","i","n","g"," ","t","o","p","i","c","s",","," ","o","r"," ","c","h",
      "e","c","k"," ","t","h","e"," ","o","f","f","i","c","i","a","l"," ","d","o","c","u","m",
      "e","n","t","a","t","i","o","n"," ","f","o","r"," ","t","h","e"," ","t","e","c","h","n",
      "o","l","o","g","y"," ","y","o","u","'","r","e"," ","w","o","r","k","i","n","g"," ","w",
      "i","t","h","."," ","I","'","m"," ","p","a","r","t","i","c","u","l","a","r","l","y"," ",
      "g","o","o","d"," ","a","t"," ","h","e","l","p","i","n","g"," ","w","i","t","h"," ","w",
      "e","b"," ","d","e","v","e","l","o","p","m","e","n","t",","," ","A","P","I","s",","," ",
      "a","n","d"," ","m","o","d","e","r","n"," ","J","a","v","a","S","c","r","i","p","t"," ",
      "f","r","a","m","e","w","o","r","k","s",".">>

generateIntelligentFallback(query) ==
    LET lowerQuery == ToLower(query)
    IN  IF Includes(lowerQuery, S_next_js) \/ Includes(lowerQuery, S_nextjs)
        THEN IF_NextPre \o query \o IF_NextSuf
        ELSE IF Includes(lowerQuery, K_react) THEN IF_ReactPre \o query \o IF_ReactSuf
        ELSE IF Includes(lowerQuery, K_typescript) THEN IF_TsPre \o query \o IF_TsSuf
        ELSE IF Includes(lowerQuery, K_python) THEN IF_PyPre \o query \o IF_PySuf
        ELSE IF Includes(lowerQuery, K_javascript) \/ Includes(lowerQuery, K_js)
        THEN IF_JsPre \o query \o IF_JsSuf
        ELSE IF Includes(lowerQuery, K_cloudflare) THEN IF_CfPre \o query \o IF_CfSuf
        ELSE IF_GenericPre \o query \o IF_GenericSuf

\* the reply text when the analysis endpoint answers with a non-2xx status
KnowledgeBaseReply(query) == V_AskingAboutColon \o query \o V_KnowledgeBase

\* the reply text when the analysis endpoint reports failure without a text
DifficultiesReply(query) ==
    LET lowerQuery == ToLower(query)
        topic == IF Includes(lowerQuery, K_next) THEN N_NextJs
                 ELSE IF Includes(lowerQuery, K_react) THEN N_React
                 ELSE IF Includes(lowerQuery, K_typescript) THEN N_TypeScript
                 ELSE N_ThisTopic
    IN  V_AskingAboutColon \o query \o V_DifficultiesFor \o topic \o V_Recommend

(***************************************************************************)
(* The voice-query POST handlers.  vVersion tells the three versions       *)
(* apart: "chained" is src/app/api/voice-query/route.ts, "validated" the   *)
(* modular handler with input validation and stage timeouts, "unvalidated" *)
(* the modular handler without them.                                       *)
(*                                                                         *)
(* A request body is not JSON (kind "invalidJson") or an object with a     *)
(* query that is absent, a non-zero number or a string, and a timestamp    *)
(* that is a valid time or absent.  Time fields of replies are left out.   *)
(***************************************************************************)
Reply(status, body) == [sent |-> TRUE, status |-> status, body |-> body]

QueryIsString(request) == request.kind = "json" /\ request.query.type = "string"

StartGenerate(context) ==
    /\ gPc' = "start"
    /\ gCtx' = context
    /\ UNCHANGED <<gLlm, gLlmCalls, gResult>>

StartSearch(query) ==
    /\ mPc' = "start"
    /\ mQuery' = query
    /\ UNCHANGED <<mResolve, mLibraryIds, mTop, mFetch, mOrder, mResult>>

\* the catch block of the validated modular handler
Validated_Catch(message) ==
    Reply(200, [success |-> TRUE, response |-> getErrorResponse(message),
                fallback |-> TRUE])

\* the catch block of the unvalidated modular handler
Unvalidated_Catch ==
    Reply(200, [success |-> TRUE, response |-> V_TroubleProcessing, fallback |-> TRUE])

\* the outer catch block of route.ts
Chained_Catch(message) ==
    Reply(200, [success |-> TRUE, response |-> V_Difficulties, error |-> message,
                fallback |-> TRUE])

\* the conversational branch: generate is called with an empty context
ConversationalContext(query) ==
    [query |-> query, correctedQuery |-> query, documentation |-> <<>>,
     libraries |-> <<>>, isConversational |-> TRUE]

\* validated modular handler, from request.json() to the first await
Validated_Receive ==
    /\ vVersion = "validated"
    /\ vPc = "received"
    /\ IF vRequest.kind # "json"
       THEN /\ vReply' = Validated_Catch(E_UnexpectedEnd)
            /\ vPc' = "replied"
            /\ UNCHANGED <<vLocal, vStages, genVars>>
       ELSE IF ~QueryIsString(vRequest) \/ Len(Trim(vRequest.query.text)) = 0
       THEN /\ vReply' = Reply(200, [success |-> FALSE, response |-> V_DidntCatch])
            /\ vPc' = "replied"
            /\ UNCHANGED <<vLocal, vStages, genVars>>
       ELSE LET trimmedQuery == Trim(vRequest.query.text)
            IN  IF isConversational(trimmedQuery)
                THEN /\ StartGenerate(ConversationalContext(trimmedQuery))
                     /\ vLocal' = [vLocal EXCEPT !.query = trimmedQuery,
                                                 !.correctedQuery = trimmedQuery]
                     /\ vStages' = {"classification", "generation"}
                     /\ vPc' = "generating"
                     /\ UNCHANGED vReply
                ELSE /\ vLocal' = [vLocal EXCEPT !.query = trimmedQuery]
                     /\ vStages' = {"classification", "correction"}
                     /\ vPc' = "correcting"
                     /\ UNCHANGED <<vReply, genVars>>
    /\ UNCHANGED <<vVersion, vRequest, mcpVars>>

\* unvalidated modular handler, from request.json() to the first await
Unvalidated_Receive ==
    /\ vVersion = "unvalidated"
    /\ vPc = "received"
    /\ IF vRequest.kind # "json"
       THEN /\ vReply' = Unvalidated_Catch
            /\ vPc' = "replied"
            /\ UNCHANGED <<vLocal, vStages, genVars>>
       ELSE IF ~QueryIsString(vRequest)
       THEN \* isConversational throws a TypeError at query.toLowerCase()
            /\ vReply' = Unvalidated_Catch
            /\ vStages' = {"classification"}
            /\ vPc' = "replied"
            /\ UNCHANGED <<vLocal, genVars>>
       ELSE LET query == vRequest.query.text
            IN  IF isConversational(query)
                THEN /\ StartGenerate(ConversationalContext(query))
                     /\ vLocal' = [vLocal EXCEPT !.query = query, !.correctedQuery = query]
                     /\ vStages' = {"classification", "generation"}
                     /\ vPc' = "generating"
                     /\ UNCHANGED vReply
                ELSE /\ vLocal' = [vLocal EXCEPT !.query = query]
                     /\ vStages' = {"classification", "correction"}
                     /\ vPc' = "correcting"
                     /\ UNCHANGED <<vReply, genVars>>
    /\ UNCHANGED <<vVersion, vRequest, mcpVars>>

\* QueryCorrector.correct settles; the handler calls MCPClient.search
CorrectSettle(outcome) ==
    /\ vVersion \in {"validated", "unvalidated"}
    /\ vPc = "correcting"
    /\ LET correctedQuery == correct(vLocal.query, outcome)
       IN  /\ vLocal' = [vLocal EXCEPT !.correctedQuery = correctedQuery]
           /\ StartSearch(correctedQuery)
    /\ vStages' = vStages \cup {"search"}
    /\ vPc' = "searching"
    /\ UNCHANGED <<vVersion, vRequest, vReply, genVars>>

\* the 3000 ms timer wins the race against QueryCorrector.correct
Validated_CorrectTimeout ==
    /\ vVersion = "validated"
    /\ vPc = "correcting"
    /\ vLocal' = [vLocal EXCEPT !.correctedQuery = vLocal.query]
    /\ StartSearch(vLocal.query)
    /\ vStages' = vStages \cup {"search"}
    /\ vPc' = "searching"
    /\ UNCHANGED <<vVersion, vRequest, vReply, genVars>>

TechnicalContext(locals, searchResult) ==
    [query |-> locals.query, correctedQuery |-> locals.correctedQuery,
     documentation |-> searchResult.documentation,
     libraries |-> searchResult.libraries, isConversational |-> FALSE]

\* a handler that calls generate without awaiting MCPClient.search
SearchDone_NoAwait ==
    /\ vVersion \in {"validated", "unvalidated"}
    /\ vPc = "searching"
    /\ vLocal' = [vLocal EXCEPT !.documentation = mResult.documentation,
                                !.libraries = mResult.libraries]
    /\ StartGenerate(TechnicalContext(vLocal, mResult))
    /\ vStages' = vStages \cup {"generation"}
    /\ vPc' = "generating"
    /\ UNCHANGED <<vVersion, vRequest, vReply, mcpVars>>

\* MCPClient.search has returned; the handler calls generate
SearchDone ==
    /\ vVersion \in {"validated", "unvalidated"}
    /\ vPc = "searching"
    /\ mPc = "returned"
    /\ vLocal' = [vLocal EXCEPT !.documentation = mResult.documentation,
                                !.libraries = mResult.libraries]
    /\ StartGenerate(TechnicalContext(vLocal, mResult))
    /\ vStages' = vStages \cup {"generation"}
    /\ vPc' = "generating"
    /\ UNCHANGED <<vVersion, vRequest, vReply, mcpVars>>

\* the 5000 ms timer wins the race against MCPClient.search, whose
\* requests stay in flight
Validated_SearchTimeout ==
    /\ vVersion = "validated"
    /\ vPc = "searching"
    /\ mPc # "returned"
    /\ vLocal' = [vLocal EXCEPT !.searchFailure = "timeout"]
    /\ StartGenerate(TechnicalContext(vLocal, [documentation |-> <<>>, libraries |-> <<>>]))
    /\ vStages' = vStages \cup {"generation"}
    /\ vPc' = "generating"
    /\ UNCHANGED <<vVersion, vRequest, vReply, mcpVars>>

\* generate has settled; the handler replies
Respond ==
    /\ vVersion \in {"validated", "unvalidated"}
    /\ vPc = "generating"
    /\ gPc \in {"returned", "threw"}
    /\ vReply' =
         IF gPc = "threw"
         THEN IF vVersion = "validated" THEN Validated_Catch(<<>>) ELSE Unvalidated_Catch
         ELSE Reply(200,
                [success |-> TRUE,
                 response |-> IF vVersion = "validated" THEN ensureVoiceLength(gResult)
                              ELSE gResult,
                 queryCorrection |-> [original |-> vLocal.query,
                                      corrected |-> vLocal.correctedQuery],
                 context |-> [libraries |-> vLocal.libraries,
                              hasDocumentation |-> vLocal.documentation # <<>>]])
    /\ vPc' = "replied"
    /\ UNCHANGED <<vVersion, vRequest, vLocal, vStages, genVars, mcpVars>>

\* route.ts, from request.json() to the fetch of /api/mcp-context
Chained_Receive ==
    /\ vVersion = "chained"
    /\ vPc = "received"
    /\ IF vRequest.kind # "json"
       THEN /\ vReply' = Chained_Catch(E_UnexpectedEnd)
            /\ vPc' = "replied"
            /\ UNCHANGED <<vLocal, vStages>>
       ELSE IF ~vRequest.timestampValid
       THEN \* new Date(timestamp).toISOString() throws a RangeError
            /\ vReply' = Chained_Catch(E_InvalidTime)
            /\ vPc' = "replied"
            /\ UNCHANGED <<vLocal, vStages>>
       ELSE IF vRequest.query.type = "undefined"
       THEN /\ vReply' = Reply(400, [success |-> FALSE, error |-> V_QueryRequired,
                                      response |-> V_ProvideValid])
            /\ vPc' = "replied"
            /\ UNCHANGED <<vLocal, vStages>>
       ELSE IF vRequest.query.type = "number"
       THEN /\ vReply' = Chained_Catch(E_TrimNotAFunction)
            /\ vPc' = "replied"
            /\ UNCHANGED <<vLocal, vStages>>
       ELSE IF vRequest.query.text = <<>> \/ Trim(vRequest.query.text) = <<>>
       THEN /\ vReply' = Reply(400, [success |-> FALSE, error |-> V_QueryRequired,
                                      response |-> V_ProvideValid])
            /\ vPc' = "replied"
            /\ UNCHANGED <<vLocal, vStages>>
       ELSE /\ vLocal' = [vLocal EXCEPT !.query = vRequest.query.text]
            /\ vStages' = {"search"}
            /\ vPc' = "mcpFetch"
            /\ UNCHANGED vReply
    /\ UNCHANGED <<vVersion, vRequest, genVars, mcpVars>>

\* the fetch of /api/mcp-context settles; route.ts fetches /api/gemini-analyze
Chained_McpSettle(outcome) ==
    /\ vVersion = "chained"
    /\ vPc = "mcpFetch"
    /\ vLocal' =
         IF outcome.kind = "response" /\ ResponseOk(outcome) /\ outcome.body.valid
         THEN [vLocal EXCEPT !.mcpContext = outcome.body.context,
                             !.documentation = outcome.body.documentation,
                             !.libraries = outcome.body.libraries]
         ELSE [vLocal EXCEPT !.searchFailure =
                   IF outcome.kind # "response" THEN outcome.kind
                   ELSE IF ~ResponseOk(outcome) THEN "status" ELSE "invalidJson"]
    /\ vStages' = vStages \cup {"generation"}
    /\ vPc' = "geminiFetch"
    /\ UNCHANGED <<vVersion, vRequest, vReply, genVars, mcpVars>>

\* a handler that flags every reply as a fallback
Chained_Body_AlwaysFallback(locals, response, fallback) ==
    [success |-> TRUE, response |-> response, context |-> locals.mcpContext,
     documentation |-> locals.documentation, libraries |-> locals.libraries,
     fallback |-> TRUE]

Chained_Body(locals, response, fallback) ==
    IF fallback
    THEN [success |-> TRUE, response |-> response, context |-> locals.mcpContext,
          documentation |-> locals.documentation, libraries |-> locals.libraries,
          fallback |-> TRUE]
    ELSE [success |-> TRUE, response |-> response, context |-> locals.mcpContext,
          documentation |-> locals.documentation, libraries |-> locals.libraries]

\* whether the answer of /api/gemini-analyze is a successful analysis
AnalysisOk(outcome) ==
    /\ outcome.kind = "response"
    /\ ResponseOk(outcome)
    /\ outcome.body.valid
    /\ outcome.body.success

\* the fetch of /api/gemini-analyze settles; route.ts replies
Chained_GeminiSettle(outcome) ==
    /\ vVersion = "chained"
    /\ vPc = "geminiFetch"
    /\ vReply' =
         IF outcome.kind # "response"
         THEN Reply(200, Chained_Body(vLocal, generateIntelligentFallback(vLocal.query), TRUE))
         ELSE IF ~ResponseOk(outcome)
         THEN Reply(200, Chained_Body(vLocal, KnowledgeBaseReply(vLocal.query), TRUE))
         ELSE IF ~outcome.body.valid
         THEN Reply(200, Chained_Body(vLocal, generateIntelligentFallback(vLocal.query), TRUE))
         ELSE IF ~outcome.body.success
         THEN Reply(200, Chained_Body(vLocal,
                           IF outcome.body.response # <<>> THEN outcome.body.response
                           ELSE DifficultiesReply(vLocal.query), TRUE))
         ELSE Reply(200, Chained_Body(vLocal,
                           IF outcome.body.response # <<>> THEN outcome.body.response
                           ELSE V_EmptyResponse, FALSE))
    /\ vLocal' = [vLocal EXCEPT !.analysisFailed = ~AnalysisOk(outcome)]
    /\ vPc' = "replied"
    /\ UNCHANGED <<vVersion, vRequest, vStages, genVars, mcpVars>>

(***************************************************************************)
(* The voice-query handlers with their stages.                             *)
(***************************************************************************)
Rep(c, n) == [i \in 1..n |-> c]

\* a completion of three sentences, 455 characters
T_LongAnswer ==
    Rep("a", 150) \o <<".", " ">> \o Rep("b", 150) \o <<"!", " ">> \o Rep("c", 150) \o <<".">>

\* a completion of 420 characters without a sentence end
T_LongWord == Rep("x", 420)

T_QuotedCorrection ==
    <<"\"","b","e","t","t","e","r"," ","a","u","t","h","\"","\n">>

T_DocsCorrection ==
    <<"d","o","c","s">>

VoiceQueryValues ==
    {[type |-> "undefined"], [type |-> "number"]}
        \cup {[type |-> "string", text |-> t] :
                t \in {<<>>, <<" ", " ">>, P_hello, Q_HelloUpper, Q_BetterAuth,
                      Q_ReactDocs}}

VoiceRequests ==
    {[kind |-> "invalidJson"]}
        \cup {[kind |-> "json", query |-> q, timestampValid |-> tv] :
                q \in VoiceQueryValues, tv \in BOOLEAN}

CorrectOutcomes ==
    {[kind |-> "rejected"]}
        \cup {[kind |-> "fulfilled", text |-> t] :
                t \in {<<>>, T_QuotedCorrection, T_DocsCorrection}}

VoiceResolveOutcomes ==
    {Rejected("timeout"),
     Response(500, <<JsonLine(JsonText(T_Found \o L_BetterAuth))>>),
     Response(200, <<JsonLine(JsonText(T_Found))>>),
     Response(200, <<JsonLine(JsonText(T_Found \o L_BetterAuth \o T_Sep \o L_NextAuth))>>)}

VoiceFetchOutcomes ==
    {Rejected("timeout"),
     Response(200, <<JsonLine(JsonText(T_DocsAlpha))>>)}

VoiceLLMTexts == LLMTexts \cup {T_LongAnswer, T_LongWord}

\* what /api/mcp-context may answer
McpRouteOutcomes ==
    {Rejected("networkError"), Rejected("timeout"),
     Response(500, [valid |-> FALSE]),
     Response(200, [valid |-> FALSE]),
     Response(200, [valid |-> TRUE, context |-> <<>>, documentation |-> T_DocsAlpha,
                    libraries |-> <<L_React>>]),
     Response(200, [valid |-> TRUE, context |-> T_DocsBeta, documentation |-> <<>>,
                    libraries |-> <<>>])}

\* what /api/gemini-analyze may answer
GeminiRouteOutcomes ==
    {Rejected("networkError"), Rejected("timeout"),
     Response(500, [valid |-> FALSE]),
     Response(200, [valid |-> FALSE])}
        \cup {Response(200, [valid |-> TRUE, success |-> s, response |-> r]) :
                s \in BOOLEAN, r \in {<<>>, T_Answer, T_LongAnswer}}

VoiceInit ==
    /\ vVersion \in {"chained", "validated", "unvalidated"}
    /\ vPc = "received"
    /\ vRequest \in VoiceRequests
    /\ vLocal = NoLocals
    /\ vStages = {}
    /\ vReply = NoReply
    /\ GenIdle
    /\ McpIdle
    /\ NonVoiceIdle

VoiceNext ==
    \/ Validated_Receive /\ UNCHANGED nonVoiceVars
    \/ Unvalidated_Receive /\ UNCHANGED nonVoiceVars
    \/ \E outcome \in CorrectOutcomes : CorrectSettle(outcome) /\ UNCHANGED nonVoiceVars
    \/ Validated_CorrectTimeout /\ UNCHANGED nonVoiceVars
    \/ SearchStart /\ UNCHANGED nonMcpVars
    \/ \E outcome \in VoiceResolveOutcomes : ResolveSettle(outcome) /\ UNCHANGED nonMcpVars
    \/ \E i \in 1..MAX_LIBRARIES, outcome \in VoiceFetchOutcomes :
           FetchSettle(i, outcome) /\ UNCHANGED nonMcpVars
    \/ SearchDone /\ UNCHANGED nonVoiceVars
    \/ Validated_SearchTimeout /\ UNCHANGED nonVoiceVars
    \/ \E random \in 0..(Len(defaultResponses) - 1) :
           GenerateConversational(random) /\ UNCHANGED nonGenVars
    \/ GenerateTechnical /\ UNCHANGED nonGenVars
    \/ \E text \in VoiceLLMTexts : LLMFulfil(text) /\ UNCHANGED nonGenVars
    \/ LLMReject /\ UNCHANGED nonGenVars
    \/ Respond /\ UNCHANGED nonVoiceVars
    \/ Chained_Receive /\ UNCHANGED nonVoiceVars
    \/ \E outcome \in McpRouteOutcomes : Chained_McpSettle(outcome) /\ UNCHANGED nonVoiceVars
    \/ \E outcome \in GeminiRouteOutcomes :
           Chained_GeminiSettle(outcome) /\ UNCHANGED nonVoiceVars

SpecVoice == VoiceInit /\ [][VoiceNext]_vars

(***************************************************************************)
(* C3, C4, C5: the replies of the voice-query handlers.                    *)
(***************************************************************************)
\* the request carries a query with something other than whitespace in it
NonBlankQuery ==
    /\ QueryIsString(vRequest)
    /\ Trim(vRequest.query.text) # <<>>

\* the request carries no query, or an empty or whitespace-only one
BlankQuery ==
    /\ vRequest.kind = "json"
    /\ \/ vRequest.query.type = "undefined"
       \/ /\ vRequest.query.type = "string"
          /\ Trim(vRequest.query.text) = <<>>

\* the request carries a query that is not one of the conversational phrases
TechnicalQuery ==
    /\ NonBlankQuery
    /\ ~isConversational(vRequest.query.text)

FlaggedFallback(body) == "fallback" \in DOMAIN body /\ body.fallback

\* C3: every request with a non-blank query is answered with HTTP 200,
\* success:true and a non-empty response, however the stages settle.
C3_AlwaysAnswers ==
    (vReply.sent /\ NonBlankQuery) =>
        /\ vReply.status = 200
        /\ vReply.body.success
        /\ vReply.body.response # <<>>

\* the documentation step failed as a whole: the handler's timer fired, the
\* request for the library list or for the context was rejected, timed out
\* or answered with a non-2xx status, or every documentation request was
\* rejected or timed out
C4_DocServiceFailed ==
    \/ vLocal.searchFailure \in {"timeout", "networkError", "status"}
    \/ /\ vVersion \in {"validated", "unvalidated"}
       /\ "generation" \in vStages
       /\ mPc = "returned"
       /\ \/ mResolve.kind \in {"networkError", "timeout"}
          \/ mResolve.kind = "response" /\ ~(mResolve.status \in 200..299)
          \/ /\ Len(mFetch) > 0
             /\ \A i \in 1..Len(mFetch) :
                    mFetch[i].outcome.kind \in {"networkError", "timeout"}

\* C4 as stated: a technical query whose documentation step fails is
\* answered with success:true, fallback:true and a non-empty response.
C4_DocFailureSetsFallback ==
    (vReply.sent /\ TechnicalQuery /\ C4_DocServiceFailed) =>
        /\ vReply.body.success
        /\ FlaggedFallback(vReply.body)
        /\ vReply.body.response # <<>>

\* the reply carries no documentation
C4_NoDocumentation(body) ==
    IF vVersion = "chained"
    THEN body.documentation = <<>> /\ body.context = <<>>
    ELSE ~body.context.hasDocumentation

\* C4, amended: a technical query whose documentation step fails is
\* answered with HTTP 200 and success:true, the reply reports no
\* documentation, and the failure does not set fallback: the modular
\* handlers leave the flag out, and route.ts sets it exactly when the
\* analysis step fails as well.
C4_DocFailureIsSilent ==
    (vReply.sent /\ TechnicalQuery /\ C4_DocServiceFailed) =>
        /\ vReply.status = 200
        /\ vReply.body.success
        /\ C4_NoDocumentation(vReply.body)
        /\ FlaggedFallback(vReply.body) <=> (vVersion = "chained" /\ vLocal.analysisFailed)

\* the validated handler's timer cut the documentation search short and the
\* reply is a plain answer without the fallback flag
C4_Witness ==
    /\ vReply.sent
    /\ TechnicalQuery
    /\ vVersion = "validated"
    /\ vLocal.searchFailure = "timeout"
    /\ vReply.body.success
    /\ ~FlaggedFallback(vReply.body)
    /\ vReply.body.response = Trim(T_Answer)

\* C5: a request without a query, or with an empty or whitespace-only one,
\* is answered with a 4xx status and no pipeline stage is invoked for it.
C5_BlankQueryRejected ==
    (vReply.sent /\ BlankQuery) =>
        /\ vReply.status \in 400..499
        /\ vStages = {}

(***************************************************************************)
(* tts/route.ts: cleanTextForTTS and fallbackCleanText.                    *)
(***************************************************************************)
\* the grave accent character U+0060, which a TLA+ string cannot hold
Backtick == "U+0060"

\* the least element of a set of indexes, 0 when there is none
FirstIndex(S) == IF S = {} THEN 0 ELSE CHOOSE k \in S : \A j \in S : k <= j

\* the first position from i on where pat occurs in s, 0 when there is none
FirstOccurrence(s, pat, i) ==
    FirstIndex({k \in i..(Len(s) - Len(pat) + 1) : SubSeq(s, k, k + Len(pat) - 1) = pat})

\* s.replace(/pat/g, rep) for a literal pat
RECURSIVE ReplaceAllFrom(_, _, _, _)
ReplaceAllFrom(s, i, pat, rep) ==
    LET k == FirstOccurrence(s, pat, i)
    IN  IF k = 0 THEN SubSeq(s, i, Len(s))
        ELSE SubSeq(s, i, k - 1) \o rep \o ReplaceAllFrom(s, k + Len(pat), pat, rep)

ReplaceAll(s, pat, rep) == ReplaceAllFrom(s, 1, pat, rep)

\* s.replace(/d(.*?)d/g, '$1') for a literal delimiter d, s without line breaks
RECURSIVE UnwrapFrom(_, _, _)
UnwrapFrom(s, i, d) ==
    LET k == FirstOccurrence(s, d, i)
        l == IF k = 0 THEN 0 ELSE FirstOccurrence(s, d, k + Len(d))
    IN  IF l = 0 THEN SubSeq(s, i, Len(s))
        ELSE SubSeq(s, i, k - 1) \o SubSeq(s, k + Len(d), l - 1)
                 \o UnwrapFrom(s, l + Len(d), d)

Unwrap(s, d) == UnwrapFrom(s, 1, d)

\* s.replace(/\s+/g, ' ')
CollapseWhitespace(s) ==
    LET indexed == [k \in 1..Len(s) |-> <<k, s[k]>>]
        StartsRun(p) == p[2] \notin Whitespace \/ p[1] = 1 \/ s[p[1] - 1] \notin Whitespace
        kept == SelectSeq(indexed, StartsRun)
    IN  [i \in 1..Len(kept) |-> IF kept[i][2] \in Whitespace THEN " " ELSE kept[i][2]]

\* s.replace(/#{1,6}\s*/g, ''): every # goes, and the whitespace behind it
RemoveHeaders(s) ==
    LET indexed == [k \in 1..Len(s) |-> <<k, s[k]>>]
        Stays(p) ==
            /\ p[2] # "#"
            /\ ~ /\ p[2] \in Whitespace
                 /\ \E j \in 1..(p[1] - 1) :
                        /\ s[j] = "#"
                        /\ \A m \in (j + 1)..p[1] : s[m] \in Whitespace
        kept == SelectSeq(indexed, Stays)
    IN  [i \in 1..Len(kept) |-> kept[i][2]]

IsNotFormatting(c) == c \notin {"*", Backtick, "#"}

S_bold ==
    <<"*","*">>

S_fence ==
    <<Backtick,Backtick,Backtick>>

S_fence_math ==
    <<Backtick,Backtick,Backtick,"m","a","t","h">>

S_code_example ==
    <<"c","o","d","e"," ","e","x","a","m","p","l","e">>

S_and ==
    <<" ","a","n","d"," ">>

S_at ==
    <<" ","a","t"," ">>

S_hash ==
    <<" ","h","a","s","h"," ">>

S_dollar ==
    <<" ","d","o","l","l","a","r"," ">>

S_percent ==
    <<" ","p","e","r","c","e","n","t"," ">>

S_http ==
    <<"h","t","t","p",":","/","/">>

S_https ==
    <<"h","t","t","p","s",":","/","/">>

S_website_link ==
    <<"w","e","b","s","i","t","e"," ","l","i","n","k">>

S_file ==
    <<" ","f","i","l","e">>

\* the replace of a fenced code block, fence to fence, by 'code example'
RECURSIVE ReplaceFencedFrom(_, _)
ReplaceFencedFrom(s, i) ==
    LET k == FirstOccurrence(s, S_fence, i)
        l == IF k = 0 THEN 0 ELSE FirstOccurrence(s, S_fence, k + Len(S_fence))
    IN  IF l = 0 THEN SubSeq(s, i, Len(s))
        ELSE SubSeq(s, i, k - 1) \o S_code_example \o ReplaceFencedFrom(s, l + Len(S_fence))

\* s.replace(/https?:\/\/[^\s]+/g, 'website link')
RECURSIVE ReplaceUrlsFrom(_, _)
ReplaceUrlsFrom(s, i) ==
    LET starts == {k \in i..Len(s) :
                      \E scheme \in {S_http, S_https} :
                          /\ k + Len(scheme) <= Len(s)
                          /\ SubSeq(s, k, k + Len(scheme) - 1) = scheme
                          /\ s[k + Len(scheme)] \notin Whitespace}
        k == FirstIndex(starts)
    IN  IF k = 0 THEN SubSeq(s, i, Len(s))
        ELSE LET end == RunEndNot(s, k, Whitespace)
             IN  SubSeq(s, i, k - 1) \o S_website_link \o ReplaceUrlsFrom(s, end)

SpokenExtensions ==
    {<<"j","s">>, <<"t","s">>, <<"t","s","x">>, <<"j","s","x">>, <<"p","y">>,
     <<"c","s","s">>, <<"h","t","m","l">>, <<"j","s","o","n">>, <<"m","d">>}

\* the extension that /\.(js|ts|...|md)($|\s)/ matches at the dot at k
ExtensionAt(s, k) ==
    {ext \in SpokenExtensions :
        /\ k + Len(ext) <= Len(s)
        /\ SubSeq(s, k + 1, k + Len(ext)) = ext
        /\ (k + Len(ext) = Len(s) \/ s[k + Len(ext) + 1] \in Whitespace)}

\* s.replace(/\.(js|ts|tsx|jsx|py|css|html|json|md)($|\s)/g, ' $1 file$2')
RECURSIVE ReplaceExtensionsFrom(_, _)
ReplaceExtensionsFrom(s, i) ==
    LET k == FirstIndex({j \in i..Len(s) : s[j] = "." /\ ExtensionAt(s, j) # {}})
    IN  IF k = 0 THEN SubSeq(s, i, Len(s))
        ELSE LET ext == CHOOSE e \in ExtensionAt(s, k) : TRUE
                 after == k + Len(ext) + 1
             IN  SubSeq(s, i, k - 1) \o <<" ">> \o ext \o S_file
                     \o (IF after <= Len(s) THEN <<s[after]>> ELSE <<>>)
                     \o ReplaceExtensionsFrom(s, after + 1)

\* s.replace(/\n+/g, '. ')
RECURSIVE ReplaceNewlinesFrom(_, _)
ReplaceNewlinesFrom(s, i) ==
    LET k == FirstIndex({j \in i..Len(s) : s[j] = "\n"})
    IN  IF k = 0 THEN SubSeq(s, i, Len(s))
        ELSE SubSeq(s, i, k - 1) \o <<".", " ">>
                 \o ReplaceNewlinesFrom(s, RunEnd(s, k, {"\n"}))

fallbackCleanText(text) ==
    LET s1 == CollapseWhitespace(text)
        s2 == Unwrap(s1, S_bold)
        s3 == Unwrap(s2, <<"*">>)
        s4 == Unwrap(s3, <<Backtick>>)
        s5 == RemoveHeaders(s4)
        s6 == ReplaceFencedFrom(s5, 1)
        s7 == ReplaceAll(s6, S_fence, <<>>)
        s8 == ReplaceAll(s7, <<"&">>, S_and)
        s9 == ReplaceAll(s8, <<"@">>, S_at)
        s10 == ReplaceAll(s9, <<"#">>, S_hash)
        s11 == ReplaceAll(s10, <<"$">>, S_dollar)
        s12 == ReplaceAll(s11, <<"%">>, S_percent)
        s13 == ReplaceUrlsFrom(s12, 1)
        s14 == ReplaceExtensionsFrom(s13, 1)
        s15 == ReplaceNewlinesFrom(s14, 1)
    IN  Trim(CollapseWhitespace(s15))

\* cleanTextForTTS: the completion's text after the final safety cleanup,
\* or fallbackCleanText(text) when the completion call fails
cleanTextForTTS(text, outcome) ==
    IF outcome.kind # "fulfilled" THEN fallbackCleanText(text)
    ELSE LET cleanedText == Trim(outcome.text)
             stripped == SelectSeq(cleanedText, IsNotFormatting)
             s1 == ReplaceAll(stripped, S_fence_math, <<>>)
             s2 == ReplaceAll(s1, S_fence, <<>>)
         IN  Trim(CollapseWhitespace(s2))

(***************************************************************************)
(* tts/route.ts: the POST handler.                                         *)
(***************************************************************************)
MAX_TTS_LENGTH == 500

M_TextRequired ==
    <<"T","e","x","t"," ","i","s"," ","r","e","q","u","i","r","e","d">>

M_TooLong ==
    <<"T","e","x","t"," ","t","o","o"," ","l","o","n","g"," ","f","o","r"," ","T","T","S">>

M_MustBeUnder ==
    <<"T","e","x","t"," ","m","u","s","t"," ","b","e"," ","u","n","d","e","r"," ">>

M_Received ==
    <<" ","c","h","a","r","a","c","t","e","r","s","."," ","R","e","c","e","i","v","e","d",":",
      " ">>

M_KeyMissing ==
    <<"E","l","e","v","e","n","L","a","b","s"," ","A","P","I"," ","k","e","y"," ","n","o","t",
      " ","c","o","n","f","i","g","u","r","e","d">>

M_UsingWebSpeech ==
    <<"U","s","i","n","g"," ","W","e","b"," ","S","p","e","e","c","h"," ","A","P","I"," ","f",
      "a","l","l","b","a","c","k">>

M_Failed ==
    <<"T","T","S"," ","g","e","n","e","r","a","t","i","o","n"," ","f","a","i","l","e","d">>

M_FallingBack ==
    <<"F","a","l","l","i","n","g"," ","b","a","c","k"," ","t","o"," ","W","e","b"," ","S","p",
      "e","e","c","h"," ","A","P","I">>

DigitChars == <<"0", "1", "2", "3", "4", "5", "6", "7", "8", "9">>

\* the decimal text of a natural number, as a template literal prints it
RECURSIVE ToDecimal(_)
ToDecimal(n) ==
    IF n < 10 THEN <<DigitChars[n + 1]>>
    ELSE ToDecimal(n \div 10) \o <<DigitChars[(n % 10) + 1]>>

\* a handler whose length check lets one more character through
ExceedsLimit_OffByOne(text) == Len(text) > MAX_TTS_LENGTH + 1

\* text.length > MAX_TTS_LENGTH
ExceedsLimit(text) == Len(text) > MAX_TTS_LENGTH

TooLongReply(text) ==
    Reply(400, [error |-> M_TooLong,
                message |-> M_MustBeUnder \o ToDecimal(MAX_TTS_LENGTH) \o M_Received
                                \o ToDecimal(Len(text)),
                textLength |-> Len(text),
                maxLength |-> MAX_TTS_LENGTH])

DEFAULT_VOICE_ID == "EXAVITQu4vr4xnSDxMaL"

\* const voiceId = voice || DEFAULT_VOICE_ID
VoiceIdOf(request) == IF request.voice # "" THEN request.voice ELSE DEFAULT_VOICE_ID

\* a handler whose failure reply lacks the useWebSpeech signal
Tts_Catch_NoSignal == Reply(500, [error |-> M_Failed, message |-> M_FallingBack])

\* the catch block of POST
Tts_Catch ==
    Reply(500, [error |-> M_Failed, useWebSpeech |-> TRUE, message |-> M_FallingBack])

\* POST, from request.json() to the call of cleanTextForTTS, which awaits
\* geminiMain.generateContent
Tts_Receive ==
    /\ tPc = "received"
    /\ IF tRequest.kind # "json"
       THEN /\ tReply' = Tts_Catch
            /\ tPc' = "replied"
            /\ UNCHANGED tCalls
       ELSE IF tRequest.text.type = "undefined"
       THEN /\ tReply' = Reply(400, [error |-> M_TextRequired])
            /\ tPc' = "replied"
            /\ UNCHANGED tCalls
       ELSE IF tRequest.text.type = "number"
       THEN \* text.trim is not a function
            /\ tReply' = Tts_Catch
            /\ tPc' = "replied"
            /\ UNCHANGED tCalls
       ELSE IF tRequest.text.text = <<>> \/ Trim(tRequest.text.text) = <<>>
       THEN /\ tReply' = Reply(400, [error |-> M_TextRequired])
            /\ tPc' = "replied"
            /\ UNCHANGED tCalls
       ELSE IF ExceedsLimit(tRequest.text.text)
       THEN /\ tReply' = TooLongReply(tRequest.text.text)
            /\ tPc' = "replied"
            /\ UNCHANGED tCalls
       ELSE IF ~tKey
       THEN /\ tReply' = Reply(422, [error |-> M_KeyMissing, useWebSpeech |-> TRUE,
                                      message |-> M_UsingWebSpeech])
            /\ tPc' = "replied"
            /\ UNCHANGED tCalls
       ELSE /\ tCalls' = [tCalls EXCEPT !.cleaner = tCalls.cleaner + 1]
            /\ tPc' = "cleaning"
            /\ UNCHANGED tReply
    /\ UNCHANGED <<tRequest, tKey, tCleaned, tVendor>>

\* cleanTextForTTS settles; the over-length check computes a truncated text
\* that nothing uses, and cleanedText goes to the vendor
Tts_CleanSettle(outcome) ==
    /\ tPc = "cleaning"
    /\ tCleaned' = cleanTextForTTS(tRequest.text.text, outcome)
    /\ tCalls' = [tCalls EXCEPT !.vendor = tCalls.vendor + 1]
    /\ tVendor' = Append(tVendor, [voiceId |-> VoiceIdOf(tRequest),
                                   text |-> cleanTextForTTS(tRequest.text.text, outcome),
                                   result |-> "pending"])
    /\ tPc' = "vendor"
    /\ UNCHANGED <<tRequest, tKey, tReply>>

\* how a vendor request settled: the fetch rejected, the status was not
\* 2xx, response.arrayBuffer() rejected, or the audio arrived
VendorResult(outcome) ==
    IF outcome.kind # "response" THEN "rejected"
    ELSE IF ~ResponseOk(outcome) THEN "status"
    ELSE IF ~outcome.body.readable THEN "bodyError"
    ELSE "audio"

\* the vendor request settles; POST replies
Tts_VendorSettle(outcome) ==
    /\ tPc = "vendor"
    /\ tReply' = IF VendorResult(outcome) = "audio"
                 THEN Reply(200, [audio |-> tCleaned])
                 ELSE Tts_Catch
    /\ tVendor' = [tVendor EXCEPT ![Len(tVendor)].result = VendorResult(outcome)]
    /\ tPc' = "replied"
    /\ UNCHANGED <<tRequest, tKey, tCleaned, tCalls>>

(***************************************************************************)
(* The tts handler on its own.                                             *)
(***************************************************************************)
T_Markdown ==
    <<"U","s","e"," ","*","*","n","p","m","*","*"," ","&"," ","r","u","n"," ",Backtick,"n","e","x",
      "t"," ","d","e","v",Backtick,"\n","#","#"," ","S","e","e"," ","h","t","t","p","s",":","/","/",
      "n","e","x","t","j","s",".","o","r","g","/","d","o","c","s"," ","o","r"," ","a","p","p",
      ".","t","s"," "," ","n","o","w">>

T_CleanedByLLM ==
    <<" ","U","s","e"," ","*","n","p","m","*"," ","a","n","d"," ","r","u","n"," ","n","e","x",
      "t"," ","d","e","v","."," ","#"," ","S","e","e"," ","t","h","e","i","r"," ","w","e","b",
      "s","i","t","e","."," "," ">>

TtsLengths == {1, 2, 399, 400, 499, 500, 501, 502, 600}

TtsTexts ==
    {[type |-> "undefined"], [type |-> "number"]}
        \cup {[type |-> "string", text |-> t] :
                t \in {<<>>, <<" ", "\n">>, T_Markdown} \cup {Rep("a", n) : n \in TtsLengths}}

\* the voice of a request: absent (or empty), or a voice identifier
TtsVoices == {"", "pNInz6obpgDQGcFmaJgB"}

TtsRequests ==
    {[kind |-> "invalidJson"]}
        \cup {[kind |-> "json", text |-> t, voice |-> v] : t \in TtsTexts, v \in TtsVoices}

CleanerOutcomes ==
    {[kind |-> "rejected"]}
        \cup {[kind |-> "fulfilled", text |-> t] : t \in {<<>>, T_CleanedByLLM, Rep("b", 520)}}

VendorOutcomes ==
    {Rejected("networkError"),
     Response(200, [readable |-> TRUE]), Response(200, [readable |-> FALSE]),
     Response(401, [readable |-> TRUE]), Response(500, [readable |-> TRUE])}

TtsInit ==
    /\ tPc = "received"
    /\ tRequest \in TtsRequests
    /\ tKey \in BOOLEAN
    /\ tCleaned = <<>>
    /\ tCalls = [cleaner |-> 0, vendor |-> 0]
    /\ tVendor = <<>>
    /\ tReply = NoReply
    /\ NonTtsIdle

TtsNext ==
    \/ Tts_Receive /\ UNCHANGED nonTtsVars
    \/ \E outcome \in CleanerOutcomes : Tts_CleanSettle(outcome) /\ UNCHANGED nonTtsVars
    \/ \E outcome \in VendorOutcomes : Tts_VendorSettle(outcome) /\ UNCHANGED nonTtsVars

SpecTts == TtsInit /\ [][TtsNext]_vars

(***************************************************************************)
(* C10: the length limit of the tts handler.                               *)
(***************************************************************************)
S_500 ==
    <<"5","0","0">>

\* the request carries a text with something other than whitespace in it
C10_NonBlankText ==
    /\ tRequest.kind = "json"
    /\ tRequest.text.type = "string"
    /\ Trim(tRequest.text.text) # <<>>

C10_RejectedOnLength ==
    /\ tReply.sent
    /\ tReply.status = 400
    /\ "message" \in DOMAIN tReply.body
    /\ OccursIn(S_500, tReply.body.message)

SignalsWebSpeech(reply) ==
    /\ reply.sent
    /\ "useWebSpeech" \in DOMAIN reply.body
    /\ reply.body.useWebSpeech

\* C11: for a non-blank text within the limit, the handler always ends in a
\* reply: without the vendor key it is 422 with useWebSpeech:true; with the
\* key it is the audio when the vendor request delivered it, and 500 with
\* useWebSpeech:true when the vendor request was rejected, answered with a
\* non-2xx status or its body could not be read.  No step leaves the
\* handler by an exception.
C11_FailureSignalsWebSpeech ==
    /\ tPc \in {"idle", "received", "cleaning", "vendor", "replied"}
    /\ (tReply.sent /\ C10_NonBlankText /\ Len(tRequest.text.text) <= 500) =>
           IF ~tKey
           THEN tReply.status = 422 /\ SignalsWebSpeech(tReply) /\ tVendor = <<>>
           ELSE IF tVendor[Len(tVendor)].result = "audio"
           THEN tReply.status = 200
           ELSE tReply.status = 500 /\ SignalsWebSpeech(tReply)

\* the vendor answered with a non-2xx status and the reply is 500 with
\* useWebSpeech:true
C11_Witness ==
    /\ tReply.sent
    /\ C10_NonBlankText
    /\ tKey
    /\ Len(tVendor) = 1
    /\ tVendor[1].result = "status"
    /\ tReply.status = 500
    /\ SignalsWebSpeech(tReply)

\* C12: when the vendor answers the first synthesis request with a non-2xx
\* status, the handler has made exactly one further request, with another
\* voice identifier, before it replies, and replies with useWebSpeech:true
\* only if that second request failed too.
C12_RetriesWithAlternateVoice ==
    (tReply.sent /\ Len(tVendor) >= 1 /\ tVendor[1].result = "status") =>
        /\ Len(tVendor) = 2
        /\ tVendor[2].voiceId # tVendor[1].voiceId
        /\ SignalsWebSpeech(tReply) => tVendor[2].result # "audio"

(***************************************************************************)
(* QueryCorrector.correct on its own.                                      *)
(***************************************************************************)
\* one invocation of correct: the try block calls geminiLite.generateContent
\* once, and the catch block returns the query
correctRun(query, outcome) ==
    [threw |-> FALSE, value |-> correct(query, outcome), llmCalls |-> 1]

T_OnlyQuotes ==
    <<"\"","'","'","\"">>

T_QuotedSpace ==
    <<"\""," ","\"">>

T_SingleQuoted ==
    <<" ","'","r","e","a","c","t","'"," ">>

T_Apostrophe ==
    <<"w","h","a","t","'","s"," ","n","e","x","t">>

QuoteAlphabet == {"'", "\"", " ", "a"}

CorrectCompletions ==
    {T_OnlyQuotes, T_QuotedSpace, T_SingleQuoted, T_Apostrophe, T_QuotedCorrection,
     T_DocsCorrection, T_Blank}
        \cup StringsUpTo(QuoteAlphabet, MaxShortLen)

CorrectQueries == {Q_BetterAuth, Q_ReactDocs, Q_DidYouHearMe}

CorrectInit ==
    /\ call \in {[fn |-> "correct", query |-> q, outcome |-> o] :
                    q \in CorrectQueries,
                    o \in {[kind |-> "rejected"]}
                            \cup {[kind |-> "fulfilled", text |-> t] : t \in CorrectCompletions}}
    /\ rets = <<>>
    /\ NonUnitIdle

CallCorrect ==
    /\ call.fn = "correct"
    /\ Len(rets) < MaxCalls
    /\ rets' = Append(rets, correctRun(call.query, call.outcome))
    /\ UNCHANGED <<call, nonUnitVars>>

CorrectNext == CallCorrect

SpecCorrect == CorrectInit /\ [][CorrectNext]_vars

(***************************************************************************)
(* C13: QueryCorrector.correct.                                            *)
(***************************************************************************)
RECURSIVE WithoutQuotes(_)
WithoutQuotes(s) ==
    IF s = <<>> THEN <<>>
    ELSE IF Head(s) \in {"'", "\""} THEN WithoutQuotes(Tail(s))
    ELSE <<Head(s)>> \o WithoutQuotes(Tail(s))

MaxRuns == 2

U_First ==
    <<"a">>

U_Padded ==
    <<" ","b"," ">>

U_Blank ==
    <<" "," ">>

Utterances == {U_First, U_Padded, U_Blank}

\* the messages of the streaming service: text that is not JSON, or a
\* message of one of the three types, with or without a transcript and an
\* end_of_turn field
SocketMessages ==
    {[kind |-> "invalid"]}
        \cup {[kind |-> "json", type |-> ty, transcript |-> tr, end_of_turn |-> e] :
                ty \in {"Begin", "Turn", "Termination"},
                tr \in {[present |-> FALSE]}
                         \cup {[present |-> TRUE, text |-> t] : t \in Utterances \cup {<<>>}},
                e \in {"undefined", "false", "true"}}

R_Spoken ==
    <<"o","k">>

\* how VoiceAPI.processQuery settles: the JSON reply with its response
\* field, or an error (abort after 10 seconds, network failure, status
\* that is not 2xx)
ApiOutcomes ==
    {[kind |-> "fulfilled", response |-> r] : r \in {<<>>, R_Spoken}}
        \cup {[kind |-> "rejected"]}

InFlight == {i \in 1..Len(cRuns) : cRuns[i].pc = "request"}

\* processSpeechWithDelay: nothing for a blank transcript or while
\* isProcessing; otherwise the timer is cleared and set anew
processSpeechWithDelay(transcript) ==
    IF Trim(transcript) = <<>> \/ cIsProcessing
    THEN UNCHANGED cTimer
    ELSE cTimer' = [set |-> TRUE, transcript |-> transcript]

\* handleTranscript that schedules processing for partial transcripts too
handleTranscript_IgnoreFinal(transcript, isComplete) ==
    IF Trim(transcript) # <<>>
    THEN processSpeechWithDelay(Trim(transcript))
    ELSE UNCHANGED cTimer

\* handleTranscript
handleTranscript(transcript, isComplete) ==
    IF isComplete /\ Trim(transcript) # <<>>
    THEN processSpeechWithDelay(Trim(transcript))
    ELSE UNCHANGED cTimer

\* data.type === 'Turn' && data.transcript
IsTranscriptMessage(msg) ==
    /\ msg.kind = "json"
    /\ msg.type = "Turn"
    /\ msg.transcript.present
    /\ msg.transcript.text # <<>>

\* onmessage of the open socket: a message that does not parse is logged,
\* a Turn message with a transcript goes to handleTranscript with
\* !!data.end_of_turn, every other message is ignored
Client_Message(msg) ==
    /\ cConn = "connected"
    /\ cMsg' = msg
    /\ IF IsTranscriptMessage(msg)
       THEN handleTranscript(msg.transcript.text, msg.end_of_turn = "true")
       ELSE UNCHANGED cTimer
    /\ UNCHANGED <<cConn, cIsProcessing, cRuns, nonClientVars>>

\* the timer fires: processVoiceQuery up to its await of processQuery
Client_TimerFires ==
    /\ cTimer.set
    /\ Len(cRuns) < MaxRuns
    /\ IF cIsProcessing
       THEN /\ cTimer' = NoTimer
            /\ UNCHANGED <<cIsProcessing, cRuns>>
       ELSE /\ cIsProcessing' = TRUE
            /\ cTimer' = NoTimer
            /\ cRuns' = Append(cRuns, [text |-> cTimer.transcript, pc |-> "request"])
    /\ UNCHANGED <<cConn, cMsg, nonClientVars>>

\* the finally block of processVoiceQuery
Client_Finally(i) ==
    /\ cRuns' = [cRuns EXCEPT ![i].pc = "done"]
    /\ cIsProcessing' = FALSE

\* processQuery settles: speakResponse is called with the reply, or with the
\* error message; it returns at once for an empty text and otherwise
\* speakWithFallback requests /api/tts
Client_ApiSettles(i, outcome) ==
    /\ i \in InFlight
    /\ IF outcome.kind = "fulfilled" /\ outcome.response = <<>>
       THEN Client_Finally(i)
       ELSE /\ cRuns' = [cRuns EXCEPT ![i].pc = "synthesizing"]
            /\ UNCHANGED cIsProcessing
    /\ UNCHANGED <<cConn, cTimer, cMsg, nonClientVars>>

\* AbortSignal.timeout(10000) of processQuery expires: the fetch rejects
Client_ApiAborts(i) ==
    /\ i \in InFlight
    /\ cRuns' = [cRuns EXCEPT ![i].pc = "synthesizing"]
    /\ UNCHANGED <<cConn, cIsProcessing, cTimer, cMsg, nonClientVars>>

\* how synthesizeSpeech settles: with the audio of a 2xx reply, or with null
\* after any other reply or a rejected fetch
SynthesisOutcomes == {"blob", "null"}

\* synthesizeSpeech settles: the audio is played, or the text is handed to
\* speechSynthesis
Client_SynthesisSettles(i, outcome) ==
    /\ i \in 1..Len(cRuns)
    /\ cRuns[i].pc = "synthesizing"
    /\ cRuns' = [cRuns EXCEPT ![i].pc = IF outcome = "blob" THEN "playing" ELSE "speaking"]
    /\ UNCHANGED <<cConn, cIsProcessing, cTimer, cMsg, nonClientVars>>

\* speakWithFallback settles: onended, onerror or a rejected play() of the
\* audio element, onend or onerror of the utterance
Client_SpeechEnds(i) ==
    /\ i \in 1..Len(cRuns)
    /\ cRuns[i].pc \in {"playing", "speaking"}
    /\ Client_Finally(i)
    /\ UNCHANGED <<cConn, cTimer, cMsg, nonClientVars>>

\* cleanup: the timer is cleared, the socket closed and voiceState replaced
cleanup ==
    /\ cTimer' = NoTimer
    /\ cIsProcessing' = FALSE
    /\ UNCHANGED cRuns

\* the Stop button
Client_Stop ==
    /\ cleanup
    /\ cConn' = "disconnected"
    /\ UNCHANGED <<cMsg, nonClientVars>>

\* the Restart button: cleanup, then a new socket
Client_Restart ==
    /\ cleanup
    /\ cConn' = "connecting"
    /\ UNCHANGED <<cMsg, nonClientVars>>

\* onopen of the socket
Client_SocketOpens ==
    /\ cConn = "connecting"
    /\ cConn' = "connected"
    /\ UNCHANGED <<cIsProcessing, cTimer, cRuns, cMsg, nonClientVars>>

\* onclose or onerror of the socket
Client_SocketCloses ==
    /\ cConn \in {"connecting", "connected"}
    /\ cConn' = "disconnected"
    /\ UNCHANGED <<cIsProcessing, cTimer, cRuns, cMsg, nonClientVars>>

\* the component once its mount effect has called initializeWebSocket
ClientInit ==
    /\ cConn = "connecting"
    /\ cIsProcessing = FALSE
    /\ cTimer = NoTimer
    /\ cRuns = <<>>
    /\ cMsg = NoMessage
    /\ NonClientIdle

ClientNext ==
    \/ \E msg \in SocketMessages : Client_Message(msg)
    \/ Client_TimerFires
    \/ \E i \in 1..MaxRuns, o \in ApiOutcomes : Client_ApiSettles(i, o)
    \/ \E i \in 1..MaxRuns : Client_ApiAborts(i)
    \/ \E i \in 1..MaxRuns, o \in SynthesisOutcomes : Client_SynthesisSettles(i, o)
    \/ \E i \in 1..MaxRuns : Client_SpeechEnds(i)
    \/ Client_Stop
    \/ Client_Restart
    \/ Client_SocketOpens
    \/ Client_SocketCloses

SpecClient == ClientInit /\ [][ClientNext]_vars

(***************************************************************************)
(* C14: one voice-query request at a time.                                 *)
(***************************************************************************)
\* C14: a session never has two processQuery requests in flight, and a
\* turn-final utterance that arrives while a request is in flight arms no
\* timer.
C14_OneRequestInFlight ==
    /\ Cardinality(InFlight) <= 1
    /\ InFlight # {} => ~cTimer.set

\* two requests of one session are in flight
C14_TwoInFlight == Cardinality(InFlight) >= 2

(***************************************************************************)
(* C15: the stages of the modular handlers run in sequence.                *)
(***************************************************************************)
Modular == vVersion \in {"validated", "unvalidated"}

\* generate has been called for a query that was not classified conversational
TechnicalGeneration == Modular /\ gPc # "idle" /\ ~gCtx.isConversational

SearchSettled == mPc \in {"returned", "threw"}

PendingFetches == {i \in 1..Len(mFetch) : mFetch[i].state = "pending"}

\* C16: once getDocumentation runs, a fetch has been started for every
\* selected library; as long as one of them is pending search has returned
\* nothing; and the result is only there when every fetch has settled.
C16_WaitsForEveryFetch ==
    /\ mPc = "fetching" => Len(mFetch) = Len(mTop) /\ PendingFetches # {}
    /\ PendingFetches # {} => mPc = "fetching" /\ mResult = NoResult
    /\ (mPc = "returned" /\ mTop # <<>>) =>
           /\ Len(mFetch) = Len(mTop)
           /\ PendingFetches = {}
           /\ Len(mOrder) = Len(mFetch)

\* two fetches were started, the second settled first, and the result came
\* after both
C16_Witness ==
    /\ mPc = "returned"
    /\ Len(mFetch) = 2
    /\ mOrder = <<2, 1>>
    /\ PendingFetches = {}
    /\ mResult.documentation # <<>>

(***************************************************************************)
(* C19: every documentation fetch fails.                                   *)
(***************************************************************************)
\* libraries were selected and the request of each of them failed
C19_EveryFetchFailed ==
    /\ mPc = "returned"
    /\ mTop # <<>>
    /\ \A i \in 1..Len(mFetch) : C2_Failed(mFetch[i]) /\ mFetch[i].value.isNull

\* C19: when libraries were resolved and every fetch fails, search returns
\* the empty result: no documentation and no libraries.
C19_AllFetchesFailGivesEmptyResult ==
    C19_EveryFetchFailed => mResult = [documentation |-> <<>>, libraries |-> <<>>]

\* every fetch failed and search returned the selected libraries with
\* empty documentation
C19_LibrariesWithoutDocumentation ==
    /\ C19_EveryFetchFailed
    /\ mResult.documentation = <<>>
    /\ mResult.libraries = mTop

(***************************************************************************)
(* C18: the response field of a reply.                                     *)
(***************************************************************************)
\* C18: every reply of a voice-query handler carries a response that is
\* not the empty string.
C18_ResponseNeverEmpty ==
    vReply.sent =>
        /\ "response" \in DOMAIN vReply.body
        /\ vReply.body.response # <<>>

\* the completion call resolved with nothing but whitespace and the modular
\* handler replied with the empty response
C18_EmptyResponseAfterBlankCompletion ==
    /\ vReply.sent
    /\ Modular
    /\ gPc = "returned"
    /\ gLlm = "fulfilled"
    /\ gResult = <<>>
    /\ vReply.status = 200
    /\ vReply.body.success
    /\ vReply.body.response = <<>>

(***************************************************************************)
(* C20: the query "hello".                                                 *)
(***************************************************************************)
\* the replies of the phrase table and the default greetings
GreetingStrings ==
    {responses[i].response : i \in 1..Len(responses)} \cup Range(defaultResponses)

\* the request body is {query: "hello", timestamp: T} with a valid T
HelloRequest ==
    /\ QueryIsString(vRequest)
    /\ vRequest.query.text = P_hello
    /\ vRequest.timestampValid

\* the documentation service or a language model was called for the request
ExternalServiceCalled ==
    \/ "correction" \in vStages
    \/ "search" \in vStages
    \/ mPc # "idle"
    \/ gLlmCalls > 0
    \/ vVersion = "chained" /\ "generation" \in vStages

\* C20: the query "hello" is answered with success:true and one of the
\* fixed greetings, and neither the correction LLM nor the documentation
\* service nor the completion LLM is called for it.
C20_HelloIsGreetedLocally ==
    (vReply.sent /\ HelloRequest) =>
        /\ vReply.body.success
        /\ vReply.body.response \in GreetingStrings
        /\ ~ExternalServiceCalled

\* the modular handlers do answer "hello" from the phrase table
C20_ModularHelloIsGreetedLocally == Modular => C20_HelloIsGreetedLocally

\* route.ts answered "hello" with the text of the analysis service
C20_HelloAnsweredByAnalysis ==
    /\ vReply.sent
    /\ HelloRequest
    /\ vVersion = "chained"
    /\ ExternalServiceCalled
    /\ vReply.body.response = T_Answer

(***************************************************************************)
(* The voice-query handlers under the scheduling the code relies on: the   *)
(* event loop runs every continuation that is ready, and every timer that  *)
(* the code sets expires.  The replies of the language model and of the    *)
(* documentation service are not promised.                                 *)
(***************************************************************************)
\* the handler's own continuations, apart from the two below
HandlerSteps ==
    \/ Unvalidated_Receive /\ UNCHANGED nonVoiceVars
    \/ Chained_Receive /\ UNCHANGED nonVoiceVars
    \/ SearchStart /\ UNCHANGED nonMcpVars
    \/ SearchDone /\ UNCHANGED nonVoiceVars
    \/ \E random \in 0..(Len(defaultResponses) - 1) :
           GenerateConversational(random) /\ UNCHANGED nonGenVars
    \/ GenerateTechnical /\ UNCHANGED nonGenVars

\* the timers: setTimeout of 3000 ms and 5000 ms in the validated handler,
\* AbortSignal.timeout on the requests of MCPClient and of route.ts
TimerExpiries ==
    \/ Validated_CorrectTimeout /\ UNCHANGED nonVoiceVars
    \/ Validated_SearchTimeout /\ UNCHANGED nonVoiceVars
    \/ ResolveSettle(Rejected("timeout")) /\ UNCHANGED nonMcpVars
    \/ \E i \in 1..MAX_LIBRARIES : FetchSettle(i, Rejected("timeout")) /\ UNCHANGED nonMcpVars
    \/ Chained_McpSettle(Rejected("timeout")) /\ UNCHANGED nonVoiceVars
    \/ Chained_GeminiSettle(Rejected("timeout")) /\ UNCHANGED nonVoiceVars

\* when Validated_Receive can be taken
Validated_ReceiveReady == vVersion = "validated" /\ vPc = "received"

\* when Respond can be taken
RespondReady ==
    /\ vVersion \in {"validated", "unvalidated"}
    /\ vPc = "generating"
    /\ gPc \in {"returned", "threw"}

\* weak fairness of Validated_Receive and of Respond, written out with the
\* guard of each action in the place of ENABLED
ReceiveAndRespondFairness ==
    /\ \/ []<>~Validated_ReceiveReady
       \/ []<><<Validated_Receive /\ UNCHANGED nonVoiceVars>>_vars
    /\ \/ []<>~RespondReady
       \/ []<><<Respond /\ UNCHANGED nonVoiceVars>>_vars

SpecVoiceFair ==
    /\ VoiceInit
    /\ [][VoiceNext]_vars
    /\ WF_vars(HandlerSteps)
    /\ WF_vars(TimerExpiries)
    /\ ReceiveAndRespondFairness

(***************************************************************************)
(* C17: the handler returns even when a service never replies.             *)
(***************************************************************************)
\* C17: every external call has a timeout whose expiry takes the fallback
\* path, so the validated modular handler eventually answers every request
\* although no service is obliged to reply.
C17_HandlerEventuallyReplies == (vVersion = "validated") => <>vReply.sent

\* the validated handler awaits the completion call, which has no timer
C17_AwaitingCompletion ==
    /\ vVersion = "validated"
    /\ vPc = "generating"
    /\ gPc = "llm"
    /\ ~vReply.sent

\* route.ts, whose two requests both carry AbortSignal.timeout, does reply
C17_ChainedEventuallyReplies == (vVersion = "chained") => <>vReply.sent

\* a conversational query is answered without any external call
C17_ConversationalEventuallyReplies ==
    (Modular /\ QueryIsString(vRequest) /\ isConversational(vRequest.query.text))
        => <>vReply.sent

(***************************************************************************)
(* cleanTextForTTS on its own.                                             *)
(***************************************************************************)
MarkerChars == {"*", Backtick, "#"}

CleanAlphabet == MarkerChars \cup {"a", " "}

T_Product ==
    <<"2"," ","*"," ","3">>

CleanTexts == StringsUpTo(CleanAlphabet, MaxShortLen) \cup {T_Markdown, T_Product}

CleanInit ==
    /\ call \in {[fn |-> "cleanTextForTTS", text |-> t, outcome |-> o] :
                    t \in CleanTexts,
                    o \in {[kind |-> "rejected"]}
                            \cup {[kind |-> "fulfilled", text |-> c] :
                                    c \in {T_CleanedByLLM, T_Markdown}}}
    /\ rets = <<>>
    /\ NonUnitIdle

CallCleanTextForTTS ==
    /\ call.fn = "cleanTextForTTS"
    /\ Len(rets) < MaxCalls
    /\ rets' = Append(rets, cleanTextForTTS(call.text, call.outcome))
    /\ UNCHANGED <<call, nonUnitVars>>

CleanNext == CallCleanTextForTTS

SpecClean == CleanInit /\ [][CleanNext]_vars

(***************************************************************************)
(* C21: the text cleaner leaves no markdown marker.                        *)
(***************************************************************************)
HasMarker(s) == \E i \in 1..Len(s) : s[i] \in MarkerChars

\* C21: cleanTextForTTS returns a text for every input, the result of
\* fallbackCleanText when the rewrite call fails, and the returned text
\* holds no asterisk, no grave accent and no hash.
C21_CleanedHasNoMarkers ==
    (call.fn = "cleanTextForTTS") =>
        \A n \in 1..Len(rets) :
            /\ call.outcome.kind = "rejected" => rets[n] = fallbackCleanText(call.text)
            /\ ~HasMarker(rets[n])

\* the part of C21 that holds: after a rewrite that succeeded no marker is left
C21_RewriteHasNoMarkers ==
    (call.fn = "cleanTextForTTS" /\ call.outcome.kind = "fulfilled") =>
        \A n \in 1..Len(rets) : ~HasMarker(rets[n])

\* the rewrite call failed for the text 2 * 3 and the asterisk came back
C21_AsteriskSurvivesFallback ==
    /\ call.fn = "cleanTextForTTS"
    /\ call.text = T_Product
    /\ call.outcome.kind = "rejected"
    /\ Len(rets) >= 1
    /\ rets[1] = T_Product

(***************************************************************************)
(* C22: only turn-final transcripts start processing.                      *)
(***************************************************************************)
\* a Turn message with end_of_turn true and a transcript that is not blank
TurnFinal(msg) ==
    /\ IsTranscriptMessage(msg)
    /\ msg.end_of_turn = "true"
    /\ Trim(msg.transcript.text) # <<>>

\* C22: the timer is armed only by a Turn message with end_of_turn true and
\* a non-blank transcript, for that transcript trimmed, and a request is
\* issued only by the timer, for the transcript the timer holds.
C22_OnlyTurnFinalStartsProcessing ==
    [][/\ (cTimer'.set /\ cTimer' # cTimer) =>
              /\ TurnFinal(cMsg')
              /\ cTimer'.transcript = Trim(cMsg'.transcript.text)
       /\ Len(cRuns') > Len(cRuns) =>
              /\ cTimer.set
              /\ cRuns'[Len(cRuns')] = [text |-> cTimer.transcript, pc |-> "request"]]_vars

\* the turn-final transcript ' b ' has armed the timer after a request for
\* the turn-final transcript 'a' was issued
C22_Witness ==
    /\ Len(cRuns) >= 1
    /\ cRuns[1].text = U_First
    /\ TurnFinal(cMsg)
    /\ cMsg.transcript.text = U_Padded
    /\ cTimer = [set |-> TRUE, transcript |-> Trim(U_Padded)]

(***************************************************************************)
(* C23: which line of a response body the documentation client reads.      *)
(***************************************************************************)
\* the positions of the lines that remain: they start with 'data: ' and their
\* payload is neither empty nor '[DONE]'
RemainingChunks(body) ==
    {i \in 1..Len(body) : IsDataLine(body[i]) /\ IsChunk(PayloadOf(body[i]))}

LastRemainingChunk(body) ==
    body[CHOOSE i \in RemainingChunks(body) : \A j \in RemainingChunks(body) : j <= i]

\* result.content[0].text of one chunk, empty when the chunk is not JSON or
\* carries no such text
ChunkContent(line) ==
    IF line.kind = "json" /\ line.value.tag = "text" THEN line.value.text ELSE <<>>

\* what a 2xx body yields, read off its last remaining chunk and nothing else
ContentOfBody(body) ==
    IF RemainingChunks(body) = {} THEN <<>> ELSE ChunkContent(LastRemainingChunk(body))

\* C23: for a 2xx response the library identifiers are those of the last
\* remaining chunk of the resolve body, and a documentation section carries
\* the content of the last remaining chunk of its body; a body without a
\* remaining chunk, or whose last remaining chunk has no content, yields the
\* empty list and no section
C23_ResultFromLastChunkAlone ==
    /\ (mResolve.kind = "response" /\ ResponseOk(mResolve))
           => mLibraryIds = SelectSeq(MatchLibraryIds(ContentOfBody(mResolve.body)), IsLibraryId)
    /\ \A i \in 1..Len(mFetch) :
           (/\ mFetch[i].state = "settled"
            /\ mFetch[i].outcome.kind = "response"
            /\ ResponseOk(mFetch[i].outcome))
               => LET content == ContentOfBody(mFetch[i].outcome.body)
                  IN  mFetch[i].value = IF content = <<>> THEN Null
                                        ELSE Value(DocSection(mTop[i], content))

\* the resolve body has an older chunk naming another library, the last
\* remaining chunk is followed by a sentinel and an empty payload, and a
\* documentation body has two chunks of which the second one is used
C23_Witness ==
    /\ mResolve.kind = "response"
    /\ mResolve.status = 200
    /\ Len(mResolve.body) = 4
    /\ mResolve.body[1] = JsonLine(JsonText(T_Found \o L_React))
    /\ mResolve.body[3] = TextLine(T_DataDone)
    /\ mLibraryIds = <<L_BetterAuth>>
    /\ Len(mFetch) = 1
    /\ mFetch[1].state = "settled"
    /\ mFetch[1].outcome.kind = "response"
    /\ Len(mFetch[1].outcome.body) = 3
    /\ mFetch[1].outcome.body[1] = JsonLine(JsonText(T_DocsAlpha))
    /\ mFetch[1].value = Value(DocSection(L_BetterAuth, T_DocsBeta))

(***************************************************************************)
(* C24: the reply to a query that is one of the phrase-table keys.          *)
(***************************************************************************)
ConversationalReturned == gPc = "returned" /\ gCtx.isConversational

\* some key of the table occurs in the lower-cased query
SomeKeyOccurs(query) ==
    \E i \in 1..Len(responses) : Includes(ToLower(query), responses[i].key)

\* C24: a conversational query that is exactly a key of the table gets the
\* reply the table assigns to that key, and a default greeting is returned
\* only when no key occurs in the lower-cased query
C24_KeyGetsItsOwnReply ==
    ConversationalReturned =>
        /\ \A i \in 1..Len(responses) :
               gCtx.query = responses[i].key => gResult = responses[i].response
        /\ (gResult \in Range(defaultResponses) => ~SomeKeyOccurs(gCtx.query))

\* the same with the key that is shadowed by an earlier one left out
C24_UnshadowedKeyGetsItsOwnReply ==
    ConversationalReturned =>
        /\ \A i \in 1..Len(responses) :
               (gCtx.query = responses[i].key /\ responses[i].key # P_testing)
                   => gResult = responses[i].response
        /\ (gResult \in Range(defaultResponses) => ~SomeKeyOccurs(gCtx.query))

\* the query 'testing' is answered with the reply of the key 'test'
C24_TestingAnsweredAsTest ==
    /\ ConversationalReturned
    /\ gCtx.query = P_testing
    /\ gResult = R_test

(***************************************************************************)
(* C25: the length of the text the tts handler submits to the vendor.       *)
(***************************************************************************)
\* cleanedText.substring(0, MAX_TTS_LENGTH - 3) + '...'
TruncatedForVendor(cleanedText) ==
    SubSeq(cleanedText, 1, MAX_TTS_LENGTH - 3) \o <<".", ".", ".">>

\* C25: no text submitted to the vendor is longer than 500 characters; a
\* cleaned text that is longer is submitted as its first 497 characters
\* followed by '...'
C25_VendorTextWithinLimit ==
    \A i \in 1..Len(tVendor) :
        /\ Len(tVendor[i].text) <= MAX_TTS_LENGTH
        /\ Len(tCleaned) > MAX_TTS_LENGTH => tVendor[i].text = TruncatedForVendor(tCleaned)

\* what is submitted is the cleaned text as it is
C25_VendorGetsCleanedText ==
    \A i \in 1..Len(tVendor) : tVendor[i].text = tCleaned

\* a request text within the limit whose rewrite has 520 characters was
\* submitted to the vendor in full
C25_LongRewriteSubmitted ==
    /\ Len(tVendor) = 1
    /\ Len(tRequest.text.text) <= MAX_TTS_LENGTH
    /\ Len(tCleaned) = 520
    /\ tVendor[1].text = tCleaned

(***************************************************************************)
(* C26: the length of the response text of a voice-query reply.             *)
(***************************************************************************)
\* the handler has replied with a response text after its generation stage
RepliedAfterGeneration ==
    /\ vReply.sent
    /\ "generation" \in vStages
    /\ "response" \in DOMAIN vReply.body

\* C26: a response text returned after generation has at most 400
\* characters; when the generated text has at most 400 characters it is
\* returned unchanged
C26_ResponseWithinVoiceLength ==
    RepliedAfterGeneration =>
        /\ Len(vReply.body.response) <= MAX_VOICE_RESPONSE_LENGTH
        /\ (Modular /\ gPc = "returned" /\ Len(gResult) <= MAX_VOICE_RESPONSE_LENGTH)
               => vReply.body.response = gResult

\* the same for the handler that calls ensureVoiceLength
C26_ValidatedResponseWithinVoiceLength ==
    vVersion = "validated" => C26_ResponseWithinVoiceLength

\* route.ts replied with the 455 characters of the analysis text
C26_LongAnalysisReturned ==
    /\ RepliedAfterGeneration
    /\ vVersion = "chained"
    /\ ~vLocal.analysisFailed
    /\ vReply.body.response = T_LongAnswer
    /\ Len(vReply.body.response) = 455

(***************************************************************************)
(* C27: the library identifiers of one search.                             *)
(***************************************************************************)
\* no element occurs twice in the sequence
Distinct(s) == \A i, j \in 1..Len(s) : s[i] = s[j] => i = j

\* how often the section header of a library occurs in a text
SectionsOf(libraryId, text) ==
    Cardinality({k \in 1..Len(text) :
                    StartsWith(SubSeq(text, k, Len(text)),
                               S_doc_marker_open \o libraryId \o S_doc_marker_close)})

\* C27: the selected identifiers are pairwise distinct, so no identifier is
\* fetched twice, and neither the returned libraries nor the returned
\* documentation holds a library twice
C27_SelectedLibrariesDistinct ==
    /\ Distinct(mTop)
    /\ Distinct(mResult.libraries)
    /\ \A id \in KnownLibraryIds : SectionsOf(id, mResult.documentation) <= 1

\* the same for resolve answers that name no identifier twice
C27_DistinctWhenMentionedOnce ==
    Distinct(mLibraryIds) => C27_SelectedLibrariesDistinct

\* the resolve answer named one library twice; it was selected twice, fetched
\* twice and returned twice
C27_SameLibraryFetchedTwice ==
    /\ mPc = "returned"
    /\ mLibraryIds = <<L_BetterAuth, L_BetterAuth>>
    /\ mTop = <<L_BetterAuth, L_BetterAuth>>
    /\ mFetch[1].state = "settled" /\ mFetch[2].state = "settled"
    /\ mResult.libraries = <<L_BetterAuth, L_BetterAuth>>
    /\ SectionsOf(L_BetterAuth, mResult.documentation) = 2

(***************************************************************************)
(* C30: the order of the sections of the documentation bundle.              *)
(***************************************************************************)
SectionHeader(libraryId) == S_doc_marker_open \o libraryId \o S_doc_marker_close

\* where the section of a library starts in a text, 0 when it has none
SectionStart(libraryId, text) ==
    LET starts == {k \in 1..Len(text) :
                      StartsWith(SubSeq(text, k, Len(text)), SectionHeader(libraryId))}
    IN  IF starts = {} THEN 0 ELSE CHOOSE k \in starts : \A j \in starts : k <= j

\* C30: in the returned bundle every library whose fetch gave a section has
\* its section, and the section of a higher-ranked library starts before the
\* section of a lower-ranked one, in whatever order the fetches settled
C30_SectionsInRankOrder ==
    mPc = "returned" =>
        /\ \A i \in 1..Len(mFetch) :
               ~mFetch[i].value.isNull => SectionStart(mTop[i], mResult.documentation) > 0
        /\ \A i, j \in 1..Len(mFetch) :
               (/\ i < j
                /\ mTop[i] # mTop[j]
                /\ ~mFetch[i].value.isNull
                /\ ~mFetch[j].value.isNull)
                   => SectionStart(mTop[i], mResult.documentation)
                          < SectionStart(mTop[j], mResult.documentation)

\* the fetch of the second library settled first and the bundle starts with
\* the section of the first library
C30_Witness ==
    /\ mPc = "returned"
    /\ mOrder = <<2, 1>>
    /\ mTop = <<L_BetterAuth, L_NextAuth>>
    /\ mFetch[1].value = Value(DocSection(L_BetterAuth, T_DocsAlpha))
    /\ mFetch[2].value = Value(DocSection(L_NextAuth, T_DocsBeta))
    /\ SectionStart(L_BetterAuth, mResult.documentation) = 1
    /\ SectionStart(L_NextAuth, mResult.documentation) > 1

(***************************************************************************)
(* C28: the processing flag under the scheduling the code relies on: every  *)
(* timer the code sets expires (the 2000 ms speech timer, the 10000 ms      *)
(* abort of processQuery) and a playback or an utterance that has started   *)
(* comes to its end or fails.  The request to /api/tts carries no timeout,  *)
(* so its reply is not promised.                                            *)
(***************************************************************************)
SpecClientFair ==
    /\ ClientInit
    /\ [][ClientNext]_vars
    /\ WF_vars(Client_TimerFires)
    /\ WF_vars(\E i \in 1..MaxRuns : Client_ApiAborts(i))
    /\ WF_vars(\E i \in 1..MaxRuns : Client_SpeechEnds(i))

AwaitingSynthesis == \E i \in 1..Len(cRuns) : cRuns[i].pc = "synthesizing"

\* C28: whenever the processing flag is set it is cleared later on
C28_FlagEventuallyCleared == cIsProcessing ~> ~cIsProcessing

\* the flag is cleared later on, or a run is waiting for /api/tts
C28_ClearedUnlessAwaitingSynthesis == cIsProcessing ~> (~cIsProcessing \/ AwaitingSynthesis)

\* the flag is set and the only run is waiting for the reply of /api/tts
C28_StuckAwaitingSynthesis ==
    /\ cIsProcessing
    /\ Len(cRuns) = 1
    /\ cRuns[1].pc = "synthesizing"

(***************************************************************************)
(* query-corrector.ts: WebSocketManager, with the sockets it creates and   *)
(* the callbacks the VoiceAssistant component hands to connect.            *)
(***************************************************************************)
LiveStates == {"CONNECTING", "OPEN"}

\* WebSocket.close(): a socket that is connecting or open starts closing
CloseCalled(readyState) == IF readyState \in LiveStates THEN "CLOSING" ELSE readyState

\* disconnect: the held socket, if any, is closed; its handlers stay attached
disconnect(sockets, held) ==
    IF held # 0 THEN [sockets EXCEPT ![held] = CloseCalled(@)] ELSE sockets

\* a handler of socket i ran, when so many sockets had been created
HandlerEvent(i, kind) == [kind |-> kind, socket |-> i, created |-> Len(wSockets)]

\* connect: nothing when the held socket is open; otherwise 'connecting' is
\* reported and a new socket replaces the held one, which is not closed
Socket_Connect ==
    /\ Len(wSockets) < MaxSockets
    /\ IF wHeld # 0 /\ wSockets[wHeld] = "OPEN"
       THEN UNCHANGED <<wSockets, wHeld, wStatus>>
       ELSE /\ wStatus' = "connecting"
            /\ wSockets' = Append(wSockets, "CONNECTING")
            /\ wHeld' = Len(wSockets) + 1
    /\ UNCHANGED <<wEvent, nonSocketVars>>

\* the Stop button: cleanup calls disconnect and sets the status
Socket_Stop ==
    /\ wSockets' = disconnect(wSockets, wHeld)
    /\ wHeld' = 0
    /\ wStatus' = "disconnected"
    /\ UNCHANGED <<wEvent, nonSocketVars>>

\* the Restart button: cleanup, then connect
Socket_Restart ==
    /\ Len(wSockets) < MaxSockets
    /\ wSockets' = Append(disconnect(wSockets, wHeld), "CONNECTING")
    /\ wHeld' = Len(wSockets) + 1
    /\ wStatus' = "connecting"
    /\ UNCHANGED <<wEvent, nonSocketVars>>

\* onopen of socket i
Socket_Opens(i) ==
    /\ i \in 1..Len(wSockets)
    /\ wSockets[i] = "CONNECTING"
    /\ wSockets' = [wSockets EXCEPT ![i] = "OPEN"]
    /\ wStatus' = "connected"
    /\ wEvent' = HandlerEvent(i, "connected")
    /\ UNCHANGED <<wHeld, nonSocketVars>>

\* socket i closes: the connection failed, the service closed it, or the
\* closing handshake that close() started is over; onerror and onclose
\* report 'disconnected'
Socket_Closes(i) ==
    /\ i \in 1..Len(wSockets)
    /\ wSockets[i] # "CLOSED"
    /\ wSockets' = [wSockets EXCEPT ![i] = "CLOSED"]
    /\ wStatus' = "disconnected"
    /\ wEvent' = HandlerEvent(i, "disconnected")
    /\ UNCHANGED <<wHeld, nonSocketVars>>

\* onmessage of socket i, which receives messages only while it is open
Socket_Message(i, msg) ==
    /\ i \in 1..Len(wSockets)
    /\ wSockets[i] = "OPEN"
    /\ IF IsTranscriptMessage(msg)
       THEN wEvent' = HandlerEvent(i, "transcript")
       ELSE UNCHANGED wEvent
    /\ UNCHANGED <<wSockets, wHeld, wStatus, nonSocketVars>>

\* a WebSocketManager as constructed
SocketInit == SocketIdle /\ NonSocketIdle

SocketNext ==
    \/ Socket_Connect
    \/ Socket_Stop
    \/ Socket_Restart
    \/ \E i \in 1..MaxSockets : Socket_Opens(i)
    \/ \E i \in 1..MaxSockets : Socket_Closes(i)
    \/ \E i \in 1..MaxSockets, msg \in SocketMessages : Socket_Message(i, msg)

SpecSocket == SocketInit /\ [][SocketNext]_vars

(***************************************************************************)
(* C29: the sockets of one WebSocketManager and the status it reports.      *)
(***************************************************************************)
LiveSockets == {i \in 1..Len(wSockets) : wSockets[i] \in LiveStates}

HeldState == IF wHeld = 0 THEN "none" ELSE wSockets[wHeld]

\* the reported status is the state of the held socket
StatusReflectsHeld ==
    /\ wStatus = "connected" => HeldState = "OPEN"
    /\ wStatus = "connecting" => HeldState = "CONNECTING"
    /\ wStatus = "disconnected" => HeldState \notin LiveStates

\* C29: at most one socket of the manager is connecting or open, the
\* reported status is the state of the socket the manager holds, and a
\* handler that reports 'disconnected' or delivers a transcript belongs to
\* the newest socket created so far
C29_OneLiveSocketAndTrueStatus ==
    /\ Cardinality(LiveSockets) <= 1
    /\ StatusReflectsHeld
    /\ wEvent.kind \in {"disconnected", "transcript"} => wEvent.socket = wEvent.created

\* the manager holds no socket or the newest one
C29_HeldSocketIsNewest == wHeld \in {0, Len(wSockets)}

\* after Restart the old socket finished closing and reported
\* 'disconnected' while the new socket was already open
C29_StaleCloseReportsDisconnected ==
    /\ wSockets = <<"CLOSED", "OPEN">>
    /\ wHeld = 2
    /\ wStatus = "disconnected"
    /\ wEvent = [kind |-> "disconnected", socket |-> 1, created |-> 2]

====
